---------------------------- MODULE Spec2Model ----------------------------
(***************************************************************************)
(* A model of the manifold-variance analysis engine of PCAfold             *)
(* (src/PCAfold/analysis.py): the VarianceData record, the normalized      *)
(* variance computation, its derivative, the cost function built from it   *)
(* and the greedy manifold-informed feature selection.                     *)
(*                                                                         *)
(* A behaviour is one call of one entry point.  Three specifications share *)
(* the module:                                                             *)
(*   Spec     one call of manifold_informed_feature_selection or of        *)
(*            cost_function_normalized_variance_derivative;                *)
(*   SpecNV   one call of compute_normalized_variance;                     *)
(*   SpecVD   a VarianceData object, its constructor arguments and the     *)
(*            values its accessors handed out, as objects on a heap.       *)
(*                                                                         *)
(* Floating point numbers are modelled as exact rationals [n, d] extended  *)
(* with +inf, -inf and NaN (d = 0), so that the divisions by zero numpy    *)
(* performs silently are values of the model, not errors.  Rounding is not *)
(* modelled.                                                               *)
(***************************************************************************)
EXTENDS Integers, Sequences, FiniteSets, TLC

\* ------------------------------------------------------------------------
\* Bounds of the model
\* ------------------------------------------------------------------------

\* largest number of columns of X (n_variables)
MaxVars == 3

\* longest user-supplied bootstrap_variables list
MaxBoot == 2

\* number of bandwidth values handed to the feature selection and to the
\* cost function (five is the fewest for which a derivative curve of three
\* interior points can have a peak)
NumBw == 5

\* largest target_manifold_dimensionality
MaxDim == 2

\* largest number of bandwidth values of a call of
\* compute_normalized_variance
MaxBwN == 2

\* largest number of writes the code around a VarianceData object makes to
\* the objects it holds
MaxWrites == 2

\* longest pair of arrays handed to find_local_maxima
MaxPts == 4

\* most observations in an array handed to the error metrics
MaxObs == 2

\* the number of bandwidths of the variance data whose cost is integrated
\* directly: enough for a derivative curve with two peaks
MaxCostBw == 7

\* ------------------------------------------------------------------------
\* Python and numpy values
\* ------------------------------------------------------------------------

\* a name bound to no object
None == "None"

\* a value that may be absent is a sequence of at most one element: <<>> is
\* Python's None where a number or a list may stand (an entry of
\* bandwidth_10pct_rise, the value a call returned) and a keyword argument
\* left out of a call, so that the default of the signature applies
Absent == <<>>

Some(x) == <<x>>

Range(s) == {s[i] : i \in DOMAIN s}

RECURSIVE GCD(_, _)
GCD(a, b) == IF b = 0 THEN a ELSE GCD(b, a % b)

Abs(x) == IF x < 0 THEN -x ELSE x

Sgn(x) == IF x < 0 THEN -1 ELSE IF x > 0 THEN 1 ELSE 0

\* a float: n/d in lowest terms with d > 0, or [1,0] = inf, [-1,0] = -inf,
\* [0,0] = NaN
Norm(n, d) ==
    IF d = 0 THEN [n |-> Sgn(n), d |-> 0]
    ELSE LET g == GCD(Abs(n), Abs(d))
         IN  [n |-> (Sgn(d) * n) \div g, d |-> Abs(d) \div g]

R(i) == [n |-> i, d |-> 1]

NaN == [n |-> 0, d |-> 0]

IsNaN(a) == a.d = 0 /\ a.n = 0

IsFinite(a) == a.d > 0

RAdd(a, b) ==
    IF IsNaN(a) \/ IsNaN(b) THEN NaN
    ELSE IF a.d = 0 /\ b.d = 0 THEN (IF a.n = b.n THEN a ELSE NaN)
    ELSE IF a.d = 0 THEN a
    ELSE IF b.d = 0 THEN b
    ELSE LET g == GCD(a.d, b.d)
         IN  Norm(a.n * (b.d \div g) + b.n * (a.d \div g), (a.d \div g) * b.d)

RNeg(a) == [n |-> -a.n, d |-> a.d]

RSub(a, b) == RAdd(a, RNeg(b))

RMul(a, b) == Norm(a.n * b.n, a.d * b.d)

\* IEEE division: x/0 is +-inf or NaN, x/inf is 0, inf/inf is NaN
RDiv(a, b) ==
    IF IsNaN(a) \/ IsNaN(b) THEN NaN
    ELSE IF b.d = 0 THEN (IF a.d = 0 THEN NaN ELSE R(0))
    ELSE IF a.d = 0 THEN [n |-> a.n * (IF b.n < 0 THEN -1 ELSE 1), d |-> 0]
    ELSE Norm(a.n * b.d, a.d * b.n)

\* comparisons are false as soon as one side is NaN
RLt(a, b) ==
    /\ ~IsNaN(a)
    /\ ~IsNaN(b)
    /\ IF a.d = 0 /\ b.d = 0 THEN a.n < b.n ELSE a.n * b.d < b.n * a.d

REq(a, b) == ~IsNaN(a) /\ ~IsNaN(b) /\ a = b

RLe(a, b) == RLt(a, b) \/ REq(a, b)

RGe(a, b) == RLe(b, a)

RGt(a, b) == RLt(b, a)

\* np.max / np.min of a non-empty array: NaN as soon as one entry is NaN
NpMax(s) ==
    IF \E i \in DOMAIN s : IsNaN(s[i]) THEN NaN
    ELSE s[CHOOSE i \in DOMAIN s : \A j \in DOMAIN s : RGe(s[i], s[j])]

NpMinTakesMax(s) == NpMax(s)

NpMin(s) ==
    IF \E i \in DOMAIN s : IsNaN(s[i]) THEN NaN
    ELSE s[CHOOSE i \in DOMAIN s : \A j \in DOMAIN s : RLe(s[i], s[j])]

RECURSIVE RSum(_)
RSum(s) == IF s = <<>> THEN R(0) ELSE RAdd(s[1], RSum(Tail(s)))

\* the increasing sequence of the members of a finite set of integers
RECURSIVE SortedSeq(_)
SortedSeq(S) ==
    IF S = {} THEN <<>>
    ELSE LET m == CHOOSE x \in S : \A y \in S : x <= y
         IN  <<m>> \o SortedSeq(S \ {m})

\* (idx, ) = np.where(a == v): the indices (from 0) at which a equals v
NpWhereEq(a, v) == SortedSeq({i - 1 : i \in {j \in DOMAIN a : REq(a[j], v)}})

\* a numpy array and a dict with the given entries, each computed once
Array(f) == f \o <<>>

Dict(f) == f @@ <<>>

RECURSIVE Pow10(_)
Pow10(e) == IF e = 0 THEN 1 ELSE 10 * Pow10(e - 1)

\* np.log10 of a bandwidth; the bandwidths handed to the derivative are the
\* powers of ten
Log10(b) == R(CHOOSE e \in 0..(NumBw + MaxCostBw) : Pow10(e) = b)

\* ------------------------------------------------------------------------
\* VarianceData and the assembly of compute_normalized_variance
\* ------------------------------------------------------------------------

\* the value of a VarianceData object: the six fields its constructor stores
VarianceData(bandwidth_values, norm_var, global_var, bandwidth_10pct_rise, keys, norm_var_limit) ==
    [bandwidth_values          |-> bandwidth_values,
     normalized_variance       |-> norm_var,
     global_variance           |-> global_var,
     bandwidth_10pct_rise      |-> bandwidth_10pct_rise,
     variable_names            |-> keys,
     normalized_variance_limit |-> norm_var_limit]

\* {key: f(idx) for idx, key in enumerate(depvar_names)}: a repeated key keeps
\* the value of its last index
LastIdx(names, key) == CHOOSE i \in DOMAIN names :
    names[i] = key /\ \A j \in DOMAIN names : names[j] = key => j <= i

\* local_var: for each name the column of lvar, one entry per bandwidth
LocalVar(depvar_names, lvar) ==
    Dict([key \in Range(depvar_names) |->
        Array([si \in DOMAIN lvar |-> R(lvar[si][LastIdx(depvar_names, key)])])])

GlobalVar(depvar_names, gvar) ==
    Dict([key \in Range(depvar_names) |-> R(gvar[LastIdx(depvar_names, key)])])

\* the threshold of the 10% rise
Threshold10pct == Norm(1, 10)

\* np.argwhere(local_var[key] / global_var[key] >= 0.1), as a set of indices
RiseIndices(local, g) ==
    {i \in DOMAIN local : RGe(RDiv(local[i], g), Threshold10pct)}

RiseOfStrict(local, g, bandwidth_values) ==
    LET idx == {i \in DOMAIN local : RGt(RDiv(local[i], g), Threshold10pct)}
    IN  IF idx = {} THEN Absent
        ELSE Some(bandwidth_values[CHOOSE i \in idx : \A j \in idx : i <= j])

\* bandwidth_10pct_rise[key]: None, or the bandwidth at the first such index
RiseOf(local, g, bandwidth_values) ==
    LET idx == RiseIndices(local, g)
    IN  IF idx = {} THEN Absent
        ELSE Some(bandwidth_values[CHOOSE i \in idx : \A j \in idx : i <= j])

RiseDictFoundOnly(depvar_names, local_var, global_var, bandwidth_values) ==
    Dict([key \in {k \in Range(depvar_names) :
                      RiseIndices(local_var[k], global_var[k]) # {}} |->
        RiseOf(local_var[key], global_var[key], bandwidth_values)])

\* the loop that fills bandwidth_10pct_rise, one entry per name
RiseDict(depvar_names, local_var, global_var, bandwidth_values) ==
    Dict([key \in Range(depvar_names) |->
        RiseOf(local_var[key], global_var[key], bandwidth_values)])

NormLocalVar(depvar_names, local_var, global_var) ==
    Dict([key \in Range(depvar_names) |->
        Array([si \in DOMAIN local_var[key] |->
                  RDiv(local_var[key][si], global_var[key])])])

NormVarLimitOfFirst(depvar_names, nlvar_limit) ==
    Dict([key \in Range(depvar_names) |->
        R(nlvar_limit[CHOOSE i \in DOMAIN depvar_names :
              depvar_names[i] = key /\ \A j \in 1..(i - 1) : depvar_names[j] # key])])

\* line 222: normvar_limit, one entry per name
NormVarLimit(depvar_names, nlvar_limit) ==
    Dict([key \in Range(depvar_names) |-> R(nlvar_limit[LastIdx(depvar_names, key)])])

\* what compute_normalized_variance returns once the kernel regressions are
\* in: lvar[si][idx] is the squared residual norm of column idx at bandwidth
\* si, gvar[idx] the squared deviation of column idx from its mean,
\* nlvar_limit[idx] the squared residual norm at bandwidth 1e-16
AssembleVarianceData(bandwidth_values, depvar_names, lvar, gvar, nlvar_limit) ==
    LET local_var  == LocalVar(depvar_names, lvar)
        global_var == GlobalVar(depvar_names, gvar)
    IN  VarianceData(bandwidth_values,
                     NormLocalVar(depvar_names, local_var, global_var),
                     global_var,
                     RiseDict(depvar_names, local_var, global_var, bandwidth_values),
                     depvar_names,
                     NormVarLimit(depvar_names, nlvar_limit))

\* ------------------------------------------------------------------------
\* normalized_variance_derivative
\* ------------------------------------------------------------------------

RawDerivativeForward(vd, key) ==
    LET bw == vd.bandwidth_values
        nv == vd.normalized_variance[key]
    IN  Array([j \in 1..(Len(bw) - 2) |->
            RAdd(RDiv(RSub(nv[j + 1], nv[j]),
                      RSub(Log10(bw[j + 1]), Log10(bw[j]))),
                 vd.normalized_variance_limit[key])])

\* the derivative of one variable before scaling: entry j (from 1) is the
\* central difference between bandwidth indices j and j+2, plus the limit
RawDerivative(vd, key) ==
    LET bw == vd.bandwidth_values
        nv == vd.normalized_variance[key]
    IN  Array([j \in 1..(Len(bw) - 2) |->
            RAdd(RDiv(RSub(nv[j + 2], nv[j]),
                      RSub(Log10(bw[j + 2]), Log10(bw[j]))),
                 vd.normalized_variance_limit[key])])

\* x: the interior bandwidths
InteriorBandwidths(vd) ==
    Array([j \in 1..(Len(vd.bandwidth_values) - 2) |-> vd.bandwidth_values[j + 1]])

\* np.max of an empty array raises ValueError: fewer than three bandwidths
\* and at least one variable
DerivativeRaises(vd) ==
    Len(vd.bandwidth_values) < 3 /\ vd.variable_names # <<>>

\* derivative / np.max(derivative)
ScaledBy(derivative, max) ==
    Array([j \in DOMAIN derivative |-> RDiv(derivative[j], max)])

ScaledDerivative(vd, key) ==
    LET derivative == RawDerivative(vd, key)
    IN  ScaledBy(derivative, NpMax(derivative))

\* (derivative_dict, x, max_derivatives_dict)
NormalizedVarianceDerivative(vd) ==
    [derivative      |-> Dict([key \in Range(vd.variable_names) |-> ScaledDerivative(vd, key)]),
     sigma           |-> InteriorBandwidths(vd),
     max_derivatives |-> Dict([key \in Range(vd.variable_names) |->
                                  NpMax(RawDerivative(vd, key))])]

\* ------------------------------------------------------------------------
\* scipy.signal.find_peaks(x, height=0)
\* ------------------------------------------------------------------------

\* the first index at or after a, below the last index, where the plateau of
\* x[i] ends
RECURSIVE PlateauEnd(_, _, _)
PlateauEnd(x, i, a) ==
    IF a < Len(x) /\ REq(x[a], x[i]) THEN PlateauEnd(x, i, a + 1) ELSE a

\* the local maxima of x from index i on (indices from 1): a sample, or the
\* middle of a plateau, strictly above both neighbours; never an end point
RECURSIVE LocalMaxima(_, _)
LocalMaxima(x, i) ==
    IF i >= Len(x) THEN <<>>
    ELSE IF RLt(x[i - 1], x[i])
         THEN LET a == PlateauEnd(x, i, i + 1)
              IN  IF RLt(x[a], x[i])
                  THEN <<(i + a - 1) \div 2>> \o LocalMaxima(x, a + 1)
                  ELSE LocalMaxima(x, i + 1)
         ELSE LocalMaxima(x, i + 1)

FindPeaks(x) ==
    SelectSeq(LocalMaxima(x, 2), LAMBDA p : RGe(x[p], R(0)))

\* ------------------------------------------------------------------------
\* cost_function_normalized_variance_derivative
\* ------------------------------------------------------------------------

\* np.trapz(y[idx], x[idx]) over the increasing index sequence idx
RECURSIVE Trapz(_, _, _)
Trapz(y, x, idx) ==
    IF Len(idx) < 2 THEN R(0)
    ELSE RAdd(RMul(RSub(x[idx[2]], x[idx[1]]),
                   RDiv(RAdd(y[idx[1]], y[idx[2]]), R(2))),
              Trapz(y, x, Tail(idx)))

\* idx_peaks is not empty
HasPeak(derivative) == FindPeaks(derivative) # <<>>

PeakLocationOfFirst(derivative, sigma) == sigma[FindPeaks(derivative)[1]]

\* peak_location = sigma[idx_peaks][-1]: the bandwidth of the rightmost peak
PeakLocation(derivative, sigma) ==
    LET idx_peaks == FindPeaks(derivative)
    IN  sigma[idx_peaks[Len(idx_peaks)]]

\* weight = 1. / peak_location when weight_area, 1. otherwise
Weight(peak_location, weight_area) ==
    IF weight_area THEN RDiv(R(1), R(peak_location)) ELSE R(1)

\* (indices_to_the_left_of_peak, ) = np.where(sigma <= peak_location)
IndicesToTheLeftOfPeak(sigma, peak_location) ==
    SortedSeq({i \in DOMAIN sigma : sigma[i] <= peak_location})

\* one entry of areas in the direct branch (lines 589-597)
DirectArea(derivative, sigma, weight_area) ==
    LET peak_location == PeakLocation(derivative, sigma)
    IN  RMul(Weight(peak_location, weight_area),
             Trapz(derivative,
                   Array([i \in DOMAIN sigma |-> Log10(sigma[i])]),
                   IndicesToTheLeftOfPeak(sigma, peak_location)))

\* cost = np.sum(areas) / len(areas)
MeanOfAreas(areas) == RDiv(RSum(areas), R(Len(areas)))

Return(v, mode) == [kind |-> "return", value |-> v, mode |-> mode]

Raise(e, mode) == [kind |-> "raise", exc |-> e, mode |-> mode]

DirectBranchSkipsNoPeak(vd, weight_area) ==
    IF DerivativeRaises(vd) THEN Raise("ValueError", "direct")
    ELSE LET nvd   == NormalizedVarianceDerivative(vd)
             names == vd.variable_names
         IN  Return(MeanOfAreas(Array([k \in DOMAIN names |->
                        IF HasPeak(nvd.derivative[names[k]])
                        THEN DirectArea(nvd.derivative[names[k]], nvd.sigma, weight_area)
                        ELSE R(0)])),
                    "direct")

\* the branch taken when direct_integration is true (lines 578-599)
DirectBranch(vd, weight_area) ==
    IF DerivativeRaises(vd) THEN Raise("ValueError", "direct")
    ELSE LET nvd   == NormalizedVarianceDerivative(vd)
             names == vd.variable_names
         IN  IF \E k \in DOMAIN names : ~HasPeak(nvd.derivative[names[k]])
             THEN Raise("IndexError", "direct")
             ELSE Return(MeanOfAreas(Array([k \in DOMAIN names |->
                             DirectArea(nvd.derivative[names[k]], nvd.sigma, weight_area)])),
                         "direct")

\* the branch taken when direct_integration is false (lines 602-633): the
\* first variable with peaks reads sigma_peak, a name that nothing binds
IndirectBranch(vd, weight_area) ==
    IF DerivativeRaises(vd) THEN Raise("ValueError", "indirect")
    ELSE IF vd.variable_names = <<>>
         THEN Return(MeanOfAreas(<<>>), "indirect")
         ELSE IF ~HasPeak(ScaledDerivative(vd, vd.variable_names[1]))
              THEN Raise("IndexError", "indirect")
              ELSE Raise("NameError", "indirect")

\* the default of direct_integration in the signature of the cost function
CostDefaultDirectIntegration == TRUE

CostFunction(vd, weight_area, direct_integration) ==
    IF direct_integration THEN DirectBranch(vd, weight_area)
    ELSE IndirectBranch(vd, weight_area)

\* ------------------------------------------------------------------------
\* mean_squared_error, root_mean_squared_error
\* ------------------------------------------------------------------------

\* An argument is a list or a numpy array; of a numpy array the model keeps
\* the shape and, for the shapes (n,) and (n, 1), the n entries.

\* lines 1470-1474 and 1482-1486: (n,) = np.shape(a), or else
\* (n, n_var) = np.shape(a), which raises ValueError for every other shape
Unpacks(a) == Len(a.shape) \in {1, 2}

NObservations(a) == a.shape[1]

NVar(a) == IF Len(a.shape) = 1 THEN 1 ELSE a.shape[2]

ValidationSkipsPredictedColumns(observed, predicted) ==
    \/ ~observed.is_ndarray
    \/ ~Unpacks(observed)
    \/ NVar(observed) # 1
    \/ ~predicted.is_ndarray
    \/ ~Unpacks(predicted)
    \/ NObservations(observed) # NObservations(predicted)

\* lines 1467-1492 of mean_squared_error, lines 1539-1564 of
\* root_mean_squared_error: the same tests in the same order
ValidationRaises(observed, predicted) ==
    \/ ~observed.is_ndarray
    \/ ~Unpacks(observed)
    \/ NVar(observed) # 1
    \/ ~predicted.is_ndarray
    \/ ~Unpacks(predicted)
    \/ NVar(predicted) # 1
    \/ NObservations(observed) # NObservations(predicted)

Squared(x) == RMul(x, x)

\* (observed - predicted) * (observed - predicted), flattened: between two
\* arrays of the same shape the difference is taken entry by entry, between
\* an array of shape (n, 1) and one of shape (n,) it is broadcast to every
\* pair of entries
SquaredDifferences(observed, predicted) ==
    LET n == NObservations(observed)
    IN  IF Len(observed.shape) = Len(predicted.shape)
        THEN [i \in 1..n |-> Squared(RSub(observed.values[i], predicted.values[i]))]
        ELSE [k \in 1..(n * n) |->
                 Squared(RSub(observed.values[((k - 1) \div n) + 1],
                              predicted.values[((k - 1) % n) + 1]))]

MeanOverObservationsLessOne(observed, predicted) ==
    [raised |-> IF NObservations(observed) = 1 THEN "ZeroDivisionError" ELSE None,
     value  |-> RDiv(RSum(SquaredDifferences(observed, predicted)),
                     R(NObservations(observed) - 1))]

\* line 1494: 1.0 / n_observed * np.sum(...), the division of 1.0 by the int
\* n_observed raising ZeroDivisionError when it is 0
MeanOfSquares(observed, predicted) ==
    [raised |-> IF NObservations(observed) = 0 THEN "ZeroDivisionError" ELSE None,
     value  |-> RDiv(RSum(SquaredDifferences(observed, predicted)),
                     R(NObservations(observed)))]

\* mean_squared_error(observed, predicted): the exception raised or None,
\* and the value returned
MeanSquaredError(observed, predicted) ==
    IF ValidationRaises(observed, predicted)
    THEN [raised |-> "ValueError", value |-> NaN]
    ELSE MeanOfSquares(observed, predicted)

\* x ** 0.5 of a float that is not negative: the number that is not negative
\* and whose square is x
Root(x) == [radicand |-> x]

\* root_mean_squared_error(observed, predicted)
RootMeanSquaredError(observed, predicted) ==
    IF ValidationRaises(observed, predicted)
    THEN [raised |-> "ValueError", value |-> Root(NaN)]
    ELSE LET mse == MeanSquaredError(observed, predicted)
         IN  [raised |-> mse.raised, value |-> Root(mse.value)]

\* ------------------------------------------------------------------------
\* State
\* ------------------------------------------------------------------------

VARIABLES
    call,                   \* the entry point this behaviour calls
    pc,                     \* the position of the call
    exception,              \* None, or the exception that ended the call
    \* --- manifold_informed_feature_selection: arguments
    n_variables,            \* np.shape(X)[1]
    bandwidth_values,       \* the bandwidth array of the caller
    weight_area,
    direct_integration,     \* Some(TRUE), Some(FALSE), or Absent when left out
    target_manifold_dimensionality,
    \* --- manifold_informed_feature_selection: list objects and locals
    lists,                  \* the contents of the list objects: "caller" is
                            \* the bootstrap_variables list of the caller,
                            \* "local" the one built at line 715, "selected"
                            \* the one built at line 767
    bootstrap_variables,    \* None, or the list object the name is bound to
    selected_variables,     \* None, or the list object the name is bound to
    bootstrap_cost_function,
    remaining_variables_list,
    previous_area,          \* NaN until line 770 binds it
    loop_counter,
    current_cost_function,
    evaluated,              \* the latest evaluation: the variables it ran on,
                            \* its n_components, its depvar_names, the branch
                            \* the cost function took ("none" before the first)
    returned,               \* Absent, or Some(the value the call returned)
    \* --- cost_function_normalized_variance_derivative: argument
    variance_data,
    \* --- compute_normalized_variance: arguments
    indepvars,              \* the independent variables: ndim, the number of
                            \* observations, and whether two observations
                            \* have identical or numerically coinciding rows
    depvar_names,
    depvars,                \* the dependent variables: ndim, the number of
                            \* observations and of columns and, per column,
                            \* the squared deviation from the column mean and
                            \* whether the column differs on coinciding rows
    bandwidth_arg,          \* Absent, or Some of the object passed as
                            \* bandwidth_values: its type and its entries
    npts_bandwidth,
    min_bandwidth,          \* Absent, or Some(bandwidth)
    max_bandwidth,          \* Absent, or Some(bandwidth)
    scale_unit_box,
    \* --- compute_normalized_variance: locals
    xi,                     \* "unset", then "scaled" or "copied"
    resolved_bandwidths,    \* the local bandwidth_values after lines 179-188
    pool,                   \* "none", "open", "closed", then "joined"
    tasks,                  \* the evaluations handed to the pool, one per
                            \* bandwidth: state, bandwidth, result
    completed,              \* the tasks that completed, in completion order
    kregmodResults,         \* what pool.starmap returned
    lvar,                   \* lvar[si][idx], filled at lines 202-203
    \* --- find_local_maxima: arguments and locals
    dependent_values,
    independent_values,
    logscaling,
    threshold,
    zero_indices,           \* the candidates kept by the scan (from 0)
    \* --- mean_squared_error, root_mean_squared_error: arguments
    observed,
    predicted,
    \* --- a VarianceData object and the objects around it
    arrays,                 \* numpy arrays: object -> entries
    array_dicts,            \* dicts of arrays: object -> key -> array object
    scalar_dicts,           \* dicts of floats: field -> object -> key -> float
    name_lists,             \* lists of str: object -> entries
    writes                  \* the writes made so far by the code around it

fsArgs == <<n_variables, bandwidth_values, weight_area, direct_integration,
            target_manifold_dimensionality>>

fsLocals == <<lists, bootstrap_variables, selected_variables,
              bootstrap_cost_function, remaining_variables_list, previous_area,
              loop_counter, current_cost_function>>

nvArgs == <<indepvars, depvar_names, depvars, bandwidth_arg, npts_bandwidth,
            min_bandwidth, max_bandwidth, scale_unit_box>>

nvLocals == <<xi, resolved_bandwidths, pool, tasks, completed, kregmodResults, lvar>>

nvVars == <<nvArgs, nvLocals>>

flmVars == <<dependent_values, independent_values, logscaling, threshold,
             zero_indices>>

errVars == <<observed, predicted>>

vdVars == <<arrays, array_dicts, scalar_dicts, name_lists, writes>>

vars == <<call, pc, exception, fsArgs, fsLocals, evaluated, returned,
          variance_data, nvVars, flmVars, errVars, vdVars>>

\* ------------------------------------------------------------------------
\* Inputs
\* ------------------------------------------------------------------------

\* bandwidth_values of the feature selection and of a direct cost call:
\* 10^0, 10^1, ..., 10^(NumBw-1)
LogspaceBandwidths == [i \in 1..NumBw |-> Pow10(i - 1)]

\* the lists of distinct indices below n of length 1..MaxBoot
BootstrapLists(n) ==
    {l \in UNION {[1..k -> 0..(n - 1)] : k \in 1..MaxBoot} :
        \A i, j \in DOMAIN l : i # j => l[i] # l[j]}

\* The squared residual norms a tentative variable set yields over the
\* bandwidths stand for the data X, X_source: three shapes are drawn from.
\* "low" rises late and sharply, "high" rises earlier, "flat" rises by the
\* same amount at every bandwidth and so has no peak in its derivative.
SelectionCurves == {"low", "high", "flat"}

CurveOf(c) ==
    [i \in 1..NumBw |->
        CASE c = "low"  -> (IF i <= 3 THEN 0 ELSE IF i = 4 THEN 2 ELSE 1)
          [] c = "high" -> (IF i <= 2 THEN 0 ELSE IF i = 3 THEN 1 ELSE 2)
          [] c = "flat" -> i - 1]

\* what compute_normalized_variance returns for dependent variables that all
\* follow curve (global variance 1, no variance left at bandwidth zero)
VarianceDataOf(bw, names, curve) ==
    AssembleVarianceData(bw, names,
                         [si \in DOMAIN bw |-> [idx \in DOMAIN names |-> curve[si]]],
                         [idx \in DOMAIN names |-> 1],
                         [idx \in DOMAIN names |-> 0])

\* 'SZ' + str(i)
SZ(i) == "SZ" \o ToString(i)

\* the variance data a direct call of the cost function is given: one
\* variable with any curve of values in CurveValues and a limit of 0 or 1, or two
\* variables following two of the selection curves
CurveValues == {0, 1, 2}

CostCallInputs ==
    {AssembleVarianceData(LogspaceBandwidths, <<SZ(0)>>,
                          [si \in 1..NumBw |-> <<c[si]>>], <<1>>, <<lim>>) :
        c \in [1..NumBw -> CurveValues], lim \in {0, 1}}
    \cup
    {AssembleVarianceData(LogspaceBandwidths, <<SZ(0), SZ(1)>>,
                          [si \in 1..NumBw |-> <<CurveOf(c1)[si], CurveOf(c2)[si]>>],
                          <<1, 1>>, <<0, 0>>) :
        c1 \in SelectionCurves, c2 \in SelectionCurves}

\* no evaluation has run yet
NotEvaluated ==
    [variables |-> <<>>, n_components |-> 0, depvar_names |-> <<>>, mode |-> "none"]

\* the call takes no VarianceData argument
NoVarianceData == VarianceDataOf(<<>>, <<>>, <<>>)

\* the behaviour is no call of compute_normalized_variance
NoVarianceLocals ==
    /\ xi = "unset"
    /\ resolved_bandwidths = <<>>
    /\ pool = "none"
    /\ tasks = <<>>
    /\ completed = <<>>
    /\ kregmodResults = <<>>
    /\ lvar = <<>>

NoVarianceCall ==
    /\ indepvars = [ndim |-> 0, observations |-> 0, coincident |-> "none"]
    /\ depvar_names = <<>>
    /\ depvars = [ndim |-> 0, observations |-> 0, columns |-> 0,
                  gvar |-> <<>>, differ |-> <<>>]
    /\ bandwidth_arg = Absent
    /\ npts_bandwidth = 0
    /\ min_bandwidth = Absent
    /\ max_bandwidth = Absent
    /\ scale_unit_box = FALSE
    /\ NoVarianceLocals

\* the behaviour is no call of find_local_maxima
NoMaximaCall ==
    /\ dependent_values = <<>>
    /\ independent_values = <<>>
    /\ logscaling = FALSE
    /\ threshold = NaN
    /\ zero_indices = <<>>

\* the behaviour is no call of an error metric
NoErrorCall ==
    /\ observed = None
    /\ predicted = None

\* the behaviour holds no VarianceData object
NoObjects ==
    /\ arrays = <<>>
    /\ array_dicts = <<>>
    /\ scalar_dicts = <<>>
    /\ name_lists = <<>>
    /\ writes = 0

NoSelectionState ==
    /\ n_variables = 0
    /\ target_manifold_dimensionality = 0
    /\ lists = [caller |-> <<>>, local |-> <<>>, selected |-> <<>>]
    /\ bootstrap_variables = None
    /\ selected_variables = None
    /\ bootstrap_cost_function = <<>>
    /\ remaining_variables_list = <<>>
    /\ previous_area = NaN
    /\ loop_counter = 0
    /\ current_cost_function = <<>>

\* a call of manifold_informed_feature_selection
InitSelect ==
    /\ call = "select"
    /\ pc = "bootstrap"
    /\ exception = None
    /\ n_variables \in 1..MaxVars
    /\ bandwidth_values = LogspaceBandwidths
    /\ weight_area \in BOOLEAN
    /\ direct_integration \in {Some(TRUE), Some(FALSE), Absent}
    /\ target_manifold_dimensionality \in 1..MaxDim
    /\ \/ /\ bootstrap_variables = None
          /\ lists = [caller |-> <<>>, local |-> <<>>, selected |-> <<>>]
       \/ /\ bootstrap_variables = "caller"
          /\ \E b \in BootstrapLists(n_variables) :
                lists = [caller |-> b, local |-> <<>>, selected |-> <<>>]
    /\ selected_variables = None
    /\ bootstrap_cost_function = <<>>
    /\ remaining_variables_list = <<>>
    /\ previous_area = NaN
    /\ loop_counter = 0
    /\ current_cost_function = <<>>
    /\ evaluated = NotEvaluated
    /\ returned = Absent
    /\ variance_data = NoVarianceData
    /\ NoVarianceCall
    /\ NoObjects
    /\ NoMaximaCall
    /\ NoErrorCall

\* a call of cost_function_normalized_variance_derivative
InitCost ==
    /\ call = "cost"
    /\ pc = "cost"
    /\ exception = None
    /\ NoSelectionState
    /\ bandwidth_values = LogspaceBandwidths
    /\ weight_area \in BOOLEAN
    /\ direct_integration \in {Some(TRUE), Some(FALSE), Absent}
    /\ evaluated = NotEvaluated
    /\ returned = Absent
    /\ variance_data \in CostCallInputs
    /\ NoVarianceCall
    /\ NoObjects
    /\ NoMaximaCall
    /\ NoErrorCall

Init == InitSelect \/ InitCost

\* ------------------------------------------------------------------------
\* cost_function_normalized_variance_derivative, called directly
\* ------------------------------------------------------------------------

CostCall ==
    /\ call = "cost"
    /\ pc = "cost"
    /\ LET di  == IF direct_integration = Absent
                  THEN CostDefaultDirectIntegration ELSE direct_integration[1]
           out == CostFunction(variance_data, weight_area, di)
       IN  /\ evaluated' = [variables |-> <<>>, n_components |-> 0,
                            depvar_names |-> variance_data.variable_names,
                            mode |-> out.mode]
           /\ IF out.kind = "raise"
              THEN pc' = "raised" /\ exception' = out.exc /\ returned' = returned
              ELSE pc' = "done" /\ exception' = exception /\ returned' = Some(out.value)
    /\ UNCHANGED <<call, fsArgs, fsLocals, variance_data>>
    /\ UNCHANGED <<nvVars, flmVars, errVars, vdVars>>

\* ------------------------------------------------------------------------
\* manifold_informed_feature_selection
\* ------------------------------------------------------------------------

\* the default of direct_integration in the signature of the selection
SelectionDefaultIsDirect == TRUE

SelectionDefaultDirectIntegration == FALSE

\* the direct_integration every evaluation of the selection passes on
DirectIntegrationOfSelection ==
    IF direct_integration = Absent
    THEN SelectionDefaultDirectIntegration ELSE direct_integration[1]

NComponentsIsTarget(size) == target_manifold_dimensionality

\* n_components of a PCA on a variable set of the given size
NComponents(size) ==
    IF size < target_manifold_dimensionality THEN size
    ELSE target_manifold_dimensionality

\* ['SZ' + str(i) for i in range(0, n_components)]
SourceTermNames(n_components) == [i \in 1..n_components |-> SZ(i - 1)]

\* one pass of a variable set through compute_normalized_variance and the
\* cost function: the data decide the curve
Evaluation(variables, n_components, names, curve) ==
    LET vd  == VarianceDataOf(bandwidth_values, names, CurveOf(curve))
        out == CostFunction(vd, weight_area, DirectIntegrationOfSelection)
    IN  [out  |-> out,
         info |-> [variables |-> variables, n_components |-> n_components,
                   depvar_names |-> names, mode |-> out.mode]]

\* int(idx) of the index array np.where returned: a size-1 array converts,
\* any other raises TypeError
IntOfIndexArrayRaises(idx) == Len(idx) # 1

\* lines 685-709: one pass of the loop over variables_indices
BootstrapEvaluate ==
    /\ call = "select"
    /\ pc = "bootstrap"
    /\ bootstrap_variables = None
    /\ Len(bootstrap_cost_function) < n_variables
    /\ \E curve \in SelectionCurves :
          LET i_variable == Len(bootstrap_cost_function)
              e == Evaluation(<<i_variable>>, 1, <<SZ(1)>>, curve)
          IN  /\ evaluated' = e.info
              /\ IF e.out.kind = "raise"
                 THEN /\ pc' = "raised"
                      /\ exception' = e.out.exc
                      /\ UNCHANGED bootstrap_cost_function
                 ELSE /\ bootstrap_cost_function' =
                             Append(bootstrap_cost_function, e.out.value)
                      /\ UNCHANGED <<pc, exception>>
    /\ UNCHANGED <<call, fsArgs, lists, bootstrap_variables, selected_variables,
                   remaining_variables_list, previous_area, loop_counter,
                   current_cost_function, returned, variance_data>>
    /\ UNCHANGED <<nvVars, flmVars, errVars, vdVars>>

\* lines 711-715: the single best variable becomes the bootstrap list
BootstrapPick ==
    /\ call = "select"
    /\ pc = "bootstrap"
    /\ bootstrap_variables = None
    /\ Len(bootstrap_cost_function) = n_variables
    /\ LET best_bootstrap_variable_index ==
               NpWhereEq(bootstrap_cost_function, NpMin(bootstrap_cost_function))
       IN  IF IntOfIndexArrayRaises(best_bootstrap_variable_index)
           THEN /\ pc' = "raised"
                /\ exception' = "TypeError"
                /\ UNCHANGED <<lists, bootstrap_variables>>
           ELSE /\ lists' = [lists EXCEPT !.local = <<best_bootstrap_variable_index[1]>>]
                /\ bootstrap_variables' = "local"
                /\ pc' = "start"
                /\ UNCHANGED exception
    /\ UNCHANGED <<call, fsArgs, selected_variables, bootstrap_cost_function,
                   remaining_variables_list, previous_area, loop_counter,
                   current_cost_function, evaluated, returned, variance_data>>
    /\ UNCHANGED <<nvVars, flmVars, errVars, vdVars>>

\* lines 723-754: the cost of the user-defined bootstrap set
UserBootstrap ==
    /\ call = "select"
    /\ pc = "bootstrap"
    /\ bootstrap_variables # None
    /\ \E curve \in SelectionCurves :
          LET n_components == NComponents(Len(lists[bootstrap_variables]))
              e == Evaluation(lists[bootstrap_variables], n_components,
                              SourceTermNames(n_components), curve)
          IN  /\ evaluated' = e.info
              /\ IF e.out.kind = "raise"
                 THEN /\ pc' = "raised"
                      /\ exception' = e.out.exc
                      /\ UNCHANGED bootstrap_cost_function
                 ELSE /\ bootstrap_cost_function' =
                             Append(bootstrap_cost_function, e.out.value)
                      /\ pc' = "start"
                      /\ UNCHANGED exception
    /\ UNCHANGED <<call, fsArgs, lists, bootstrap_variables, selected_variables,
                   remaining_variables_list, previous_area, loop_counter,
                   current_cost_function, returned, variance_data>>
    /\ UNCHANGED <<nvVars, flmVars, errVars, vdVars>>

RemainingKeepsLast(chosen) ==
    SortedSeq((0..(n_variables - 1)) \ Range(SubSeq(chosen, 1, Len(chosen) - 1)))

\* [i for i in range(0, n_variables) if i not in chosen]
RemainingOf(chosen) == SortedSeq((0..(n_variables - 1)) \ Range(chosen))

\* the list object selected_variables is bound to at line 767: the
\* comprehension builds a new list
SelectedObjectShared(bootstrap) == bootstrap

SelectedObject(bootstrap) == "selected"

\* lines 767-772
StartGrowth ==
    /\ call = "select"
    /\ pc = "start"
    /\ selected_variables' = SelectedObject(bootstrap_variables)
    /\ lists' = [lists EXCEPT !.selected = lists[bootstrap_variables]]
    /\ remaining_variables_list' = RemainingOf(lists[bootstrap_variables])
    /\ previous_area' = NpMin(bootstrap_cost_function)
    /\ loop_counter' = 0
    /\ pc' = "while"
    /\ UNCHANGED <<call, exception, fsArgs, bootstrap_variables,
                   bootstrap_cost_function, current_cost_function, evaluated,
                   returned, variance_data>>
    /\ UNCHANGED <<nvVars, flmVars, errVars, vdVars>>

\* line 774, the test holding: lines 776-783
EnterIteration ==
    /\ call = "select"
    /\ pc = "while"
    /\ Len(remaining_variables_list) > 0
    /\ loop_counter' = loop_counter + 1
    /\ current_cost_function' = <<>>
    /\ pc' = "for"
    /\ UNCHANGED <<call, exception, fsArgs, lists, bootstrap_variables,
                   selected_variables, bootstrap_cost_function,
                   remaining_variables_list, previous_area, evaluated, returned,
                   variance_data>>
    /\ UNCHANGED <<nvVars, flmVars, errVars, vdVars>>

\* line 774, the test failing: the loop is left
LeaveLoop ==
    /\ call = "select"
    /\ pc = "while"
    /\ Len(remaining_variables_list) = 0
    /\ pc' = "return"
    /\ UNCHANGED <<call, exception, fsArgs, fsLocals, evaluated, returned,
                   variance_data>>
    /\ UNCHANGED <<nvVars, flmVars, errVars, vdVars>>

\* lines 785-817: one pass of the loop over remaining_variables_list
GrowthEvaluate ==
    /\ call = "select"
    /\ pc = "for"
    /\ Len(current_cost_function) < Len(remaining_variables_list)
    /\ \E curve \in SelectionCurves :
          LET i_variable   == remaining_variables_list[Len(current_cost_function) + 1]
              n_components == NComponents(Len(lists[selected_variables]) + 1)
              current_variables_list == Append(lists[selected_variables], i_variable)
              e == Evaluation(current_variables_list, n_components,
                              SourceTermNames(n_components), curve)
          IN  /\ evaluated' = e.info
              /\ IF e.out.kind = "raise"
                 THEN /\ pc' = "raised"
                      /\ exception' = e.out.exc
                      /\ UNCHANGED current_cost_function
                 ELSE /\ current_cost_function' =
                             Append(current_cost_function, e.out.value)
                      /\ UNCHANGED <<pc, exception>>
    /\ UNCHANGED <<call, fsArgs, lists, bootstrap_variables, selected_variables,
                   bootstrap_cost_function, remaining_variables_list,
                   previous_area, loop_counter, returned, variance_data>>
    /\ UNCHANGED <<nvVars, flmVars, errVars, vdVars>>

\* selected_variables.append(v)
AppendSelectedFront(l, v) == <<v>> \o l

AppendSelected(l, v) == Append(l, v)

AcceptsAnyCost(min_area, previous) == TRUE

AcceptsOnlyBetter(min_area, previous) == RLt(min_area, previous)

\* the test of line 823
Accepts(min_area, previous) == RLe(min_area, previous)

\* lines 819-830: commit the best candidate or leave the loop
Decide ==
    /\ call = "select"
    /\ pc = "for"
    /\ Len(current_cost_function) = Len(remaining_variables_list)
    /\ LET min_area == NpMin(current_cost_function)
           best_variable_index == NpWhereEq(current_cost_function, min_area)
       IN  IF IntOfIndexArrayRaises(best_variable_index)
           THEN /\ pc' = "raised"
                /\ exception' = "TypeError"
                /\ UNCHANGED <<lists, remaining_variables_list, previous_area>>
           ELSE IF Accepts(min_area, previous_area)
                THEN /\ lists' = [lists EXCEPT ![selected_variables] =
                            AppendSelected(@, remaining_variables_list[best_variable_index[1] + 1])]
                     /\ remaining_variables_list' = RemainingOf(lists'[selected_variables])
                     /\ previous_area' = min_area
                     /\ pc' = "while"
                     /\ UNCHANGED exception
                ELSE /\ pc' = "return"
                     /\ UNCHANGED <<exception, lists, remaining_variables_list,
                                    previous_area>>
    /\ UNCHANGED <<call, fsArgs, bootstrap_variables, selected_variables,
                   bootstrap_cost_function, loop_counter, current_cost_function,
                   evaluated, returned, variance_data>>
    /\ UNCHANGED <<nvVars, flmVars, errVars, vdVars>>

\* line 843
ReturnSelected ==
    /\ call = "select"
    /\ pc = "return"
    /\ returned' = Some(lists[selected_variables])
    /\ pc' = "done"
    /\ UNCHANGED <<call, exception, fsArgs, fsLocals, evaluated, variance_data>>
    /\ UNCHANGED <<nvVars, flmVars, errVars, vdVars>>

Next ==
    \/ CostCall
    \/ BootstrapEvaluate
    \/ BootstrapPick
    \/ UserBootstrap
    \/ StartGrowth
    \/ EnterIteration
    \/ LeaveLoop
    \/ GrowthEvaluate
    \/ Decide
    \/ ReturnSelected

Spec == Init /\ [][Next]_vars

\* ------------------------------------------------------------------------
\* cost_function_normalized_variance_derivative on longer curves
\* ------------------------------------------------------------------------

\* 10^0, 10^1, ..., 10^(MaxCostBw-1)
CostBandwidths == [i \in 1..MaxCostBw |-> Pow10(i - 1)]

\* normalized variances that rise from 0 to 1 at bandwidth index k and from
\* 1 to 2 at bandwidth index m
StepCurves ==
    {[i \in 1..MaxCostBw |-> IF i < k THEN 0 ELSE IF i < m THEN 1 ELSE 2] :
        k \in 2..MaxCostBw, m \in 2..(MaxCostBw + 1)}

\* a normalized variance that rises at every second bandwidth and falls
\* back to 0 in between: its derivative has more than one peak
ZigzagCurve == [i \in 1..MaxCostBw |-> IF i % 2 = 0 THEN (i \div 2) - 1 ELSE 0]

\* one variable with any curve of values in CurveValues, or two variables
\* each following a curve of StepCurves or the zigzag curve
LongCostCallInputs ==
    {AssembleVarianceData(CostBandwidths, <<SZ(0)>>,
                          [si \in 1..MaxCostBw |-> <<c[si]>>], <<1>>, <<0>>) :
        c \in [1..MaxCostBw -> CurveValues]}
    \cup
    {AssembleVarianceData(CostBandwidths, <<SZ(0), SZ(1)>>,
                          [si \in 1..MaxCostBw |-> <<c1[si], c2[si]>>],
                          <<1, 1>>, <<0, 0>>) :
        c1 \in StepCurves \cup {ZigzagCurve}, c2 \in StepCurves \cup {ZigzagCurve}}

InitLongCost ==
    /\ call = "cost"
    /\ pc = "cost"
    /\ exception = None
    /\ NoSelectionState
    /\ bandwidth_values = CostBandwidths
    /\ weight_area \in BOOLEAN
    /\ direct_integration \in {Some(TRUE), Some(FALSE)}
    /\ evaluated = NotEvaluated
    /\ returned = Absent
    /\ variance_data \in LongCostCallInputs
    /\ NoVarianceCall
    /\ NoObjects
    /\ NoMaximaCall
    /\ NoErrorCall

NextCost == CostCall

SpecCost == InitLongCost /\ [][NextCost]_vars

\* ------------------------------------------------------------------------
\* normalized_variance_derivative, called directly
\* ------------------------------------------------------------------------

\* variance data of any number of bandwidths up to NumBw: one variable with
\* any curve of values in CurveValues, or no variable at all
DerivativeCallInputs ==
    CostCallInputs
    \cup
    {AssembleVarianceData(SubSeq(LogspaceBandwidths, 1, m), <<SZ(0)>>,
                          [si \in 1..m |-> <<c[si]>>], <<1>>, <<0>>) :
        m \in 0..(NumBw - 1), c \in [1..(NumBw - 1) -> CurveValues]}
    \cup
    {AssembleVarianceData(SubSeq(LogspaceBandwidths, 1, m), <<>>,
                          [si \in 1..m |-> <<>>], <<>>, <<>>) : m \in 0..NumBw}

\* a call of normalized_variance_derivative
InitDerivative ==
    /\ call = "derivative"
    /\ pc = "derivative"
    /\ exception = None
    /\ NoSelectionState
    /\ bandwidth_values = <<>>
    /\ weight_area = FALSE
    /\ direct_integration = Absent
    /\ evaluated = NotEvaluated
    /\ returned = Absent
    /\ variance_data \in DerivativeCallInputs
    /\ NoVarianceCall
    /\ NoObjects
    /\ NoMaximaCall
    /\ NoErrorCall

\* lines 259-271
DerivativeCall ==
    /\ call = "derivative"
    /\ pc = "derivative"
    /\ IF DerivativeRaises(variance_data)
       THEN pc' = "raised" /\ exception' = "ValueError" /\ returned' = returned
       ELSE /\ pc' = "done"
            /\ exception' = exception
            /\ returned' = Some(NormalizedVarianceDerivative(variance_data))
    /\ UNCHANGED <<call, fsArgs, fsLocals, evaluated, variance_data>>
    /\ UNCHANGED <<nvVars, flmVars, errVars, vdVars>>

NextDerivative == DerivativeCall

SpecDerivative == InitDerivative /\ [][NextDerivative]_vars

\* ------------------------------------------------------------------------
\* find_local_maxima
\* ------------------------------------------------------------------------

\* the default of threshold
DefaultThreshold == Norm(1, 100)

\* the values of dependent_values: zero, one below the default threshold and
\* two above it
DependentValues == {R(0), Norm(1, 200), Norm(1, 2), R(1)}

\* lines 298-306: the scan for the candidates; i runs from 1 to npts - 1 over
\* indices from 0, dep[i + 1] being dependent_values[i]
RECURSIVE ScanFrom(_, _, _, _, _, _)
ScanFrom(dep, npts, thr, i, upslope, found) ==
    IF i > npts - 1 THEN found
    ELSE LET diff    == RSub(dep[i + 1], dep[i])
             turns   == upslope /\ RLe(diff, R(0))
             kept    == IF turns /\ RGt(dep[i + 1], thr)
                        THEN Append(found, i - 1) ELSE found
             falling == IF turns THEN FALSE ELSE upslope
             rising  == IF ~falling /\ RGe(diff, R(0)) THEN TRUE ELSE falling
         IN  ScanFrom(dep, npts, thr, i + 1, rising, kept)

ZeroIndices(dep, npts, thr) == ScanFrom(dep, npts, thr, 1, TRUE, <<>>)

\* lines 300 and 303: the candidates the scan flags, kept or not
FlaggedIndices(dep, npts) == ScanFrom(dep, npts, [n |-> -1, d |-> 0], 1, TRUE, <<>>)

\* lines 310-317: the four indices the spline of a candidate is fitted on
SplineIndices(idx, npts) ==
    IF idx < 1 THEN <<idx, idx + 1, idx + 2, idx + 3>>
    ELSE IF idx < 2 THEN <<idx - 1, idx, idx + 1, idx + 2>>
    ELSE IF idx > npts - 1 THEN <<idx - 3, idx - 2, idx - 1, idx>>
    ELSE <<idx - 2, idx - 1, idx, idx + 1>>

\* independent_values[indices] raises IndexError on an index past the end
IndexingRaises(indices, npts) == \E k \in DOMAIN indices : indices[k] > npts - 1

\* lines 318-321: the maximum of the cubic spline through the four points,
\* searched from the candidate.  The spline is not computed: a location and
\* a value name the candidate and the indices they were refined on, and a
\* location whether it was transformed back by 10 ** x (line 335).
RefinedLocation(idx, npts, logscaled) ==
    [candidate |-> idx, indices |-> SplineIndices(idx, npts), logscaled |-> logscaled]

RefinedValue(idx, npts) ==
    [candidate |-> idx, indices |-> SplineIndices(idx, npts)]

ZeroDvalues(found, npts) ==
    [k \in DOMAIN found |-> RefinedValue(found[k], npts)]

ZeroLocations(found, npts, logscaled) ==
    [k \in DOMAIN found |-> RefinedLocation(found[k], npts, logscaled)]

\* ------------------------------------------------------------------------
\* compute_normalized_variance
\* ------------------------------------------------------------------------

\* the lists of names a call is given; the code accepts a repeated name
NameLists == {<<"A">>, <<"A", "B">>, <<"A", "A">>}

\* per column of depvars, the squared deviation from the column mean: 0 for
\* a column whose observations are all equal
GlobalValues == {0, 4, 10}

\* the squared norm of the residual of a kernel regression
LocalValues == {0, 1}

\* the entries of an explicit bandwidth_values; the code does not require
\* them to be sorted or distinct
ExplicitBandwidths == {1, 10}

ExplicitArrays == UNION {[1..k -> ExplicitBandwidths] : k \in 0..MaxBwN}

\* whether two observations have the same row of independent variables:
\* "identical" rows, rows that differ by less than the kernel at bandwidth
\* 1e-16 resolves ("near"), or neither
Coincidences == {"none", "near", "identical"}

\* the smallest and the largest bandwidth of the logspace when they are
\* computed from the interpoint distances (lines 180-184): the largest is
\* ten times the diagonal of the data, so above the smallest
DataMinBandwidth == Pow10(0)

DataMaxBandwidth == Pow10(6)

\* the selection and cost arguments of a behaviour that calls neither
NoSelectionCall ==
    /\ NoSelectionState
    /\ bandwidth_values = <<>>
    /\ weight_area = FALSE
    /\ direct_integration = Absent
    /\ evaluated = NotEvaluated
    /\ variance_data = NoVarianceData

\* the data of a call: a column that differs on coinciding rows is not
\* constant, and no column does when no rows coincide
VarianceCallData ==
    /\ indepvars \in [ndim : {1, 2}, observations : {2}, coincident : Coincidences]
    /\ \E nd \in {1, 2} : \E n \in {2, 3} : \E c \in 1..2 :
       \E g \in [1..c -> GlobalValues] : \E df \in [1..c -> BOOLEAN] :
          /\ \A idx \in 1..c :
                df[idx] => (g[idx] > 0 /\ indepvars.coincident # "none")
          /\ depvars = [ndim |-> nd, observations |-> n, columns |-> c,
                        gvar |-> g, differ |-> df]

\* the bandwidth arguments of a call: an explicit bandwidth_values, or the
\* number of points of a logspace with the ends given or left out
VarianceCallBandwidths ==
    \/ /\ bandwidth_arg = Absent
       /\ npts_bandwidth \in 0..MaxBwN
       /\ min_bandwidth \in {Absent, Some(DataMaxBandwidth)}
       /\ max_bandwidth \in {Absent, Some(DataMinBandwidth)}
    \/ /\ \E nd \in BOOLEAN : \E v \in ExplicitArrays :
             bandwidth_arg = Some([is_ndarray |-> nd, values |-> v])
       /\ npts_bandwidth = MaxBwN
       /\ min_bandwidth = Absent
       /\ max_bandwidth = Absent

\* a call of compute_normalized_variance
InitVariance ==
    /\ call = "variance"
    /\ pc = "validate"
    /\ exception = None
    /\ returned = Absent
    /\ NoSelectionCall
    /\ NoObjects
    /\ NoMaximaCall
    /\ NoErrorCall
    /\ depvar_names \in NameLists
    /\ VarianceCallData
    /\ VarianceCallBandwidths
    /\ scale_unit_box \in BOOLEAN
    /\ NoVarianceLocals

\* lines 165-170: the assertions on the shapes
Validate ==
    /\ call = "variance"
    /\ pc = "validate"
    /\ IF /\ indepvars.ndim = 2
          /\ depvars.ndim = 2
          /\ indepvars.observations = depvars.observations
          /\ Len(depvar_names) = depvars.columns
       THEN pc' = "scale" /\ exception' = exception
       ELSE pc' = "raised" /\ exception' = "AssertionError"
    /\ UNCHANGED <<call, fsArgs, fsLocals, evaluated, returned, variance_data>>
    /\ UNCHANGED <<nvVars, flmVars, errVars, vdVars>>

\* lines 172-177: xi is indepvars scaled to the unit box, or a copy of it
Scale ==
    /\ call = "variance"
    /\ pc = "scale"
    /\ xi' = IF scale_unit_box THEN "scaled" ELSE "copied"
    /\ pc' = "bandwidths"
    /\ UNCHANGED <<call, exception, fsArgs, fsLocals, evaluated, returned, variance_data>>
    /\ UNCHANGED <<nvArgs, resolved_bandwidths, pool, tasks, completed, kregmodResults, lvar>>
    /\ UNCHANGED <<flmVars, errVars, vdVars>>

\* np.logspace(np.log10(lo), np.log10(hi), npts) for lo and hi powers of ten
\* whose exponents differ by a multiple of npts - 1
Logspace(lo, hi, npts) ==
    LET elo == Log10(lo).n
        ehi == Log10(hi).n
    IN  [i \in 1..npts |->
            IF npts = 1 THEN lo
            ELSE Pow10(elo + ((i - 1) * (ehi - elo)) \div (npts - 1))]

\* lines 179-188: the bandwidths are generated, or taken as given when they
\* are a numpy array
ResolveBandwidths ==
    /\ call = "variance"
    /\ pc = "bandwidths"
    /\ IF bandwidth_arg = Absent
       THEN /\ resolved_bandwidths' =
                  Logspace(IF min_bandwidth = Absent THEN DataMinBandwidth
                           ELSE min_bandwidth[1],
                           IF max_bandwidth = Absent THEN DataMaxBandwidth
                           ELSE max_bandwidth[1],
                           npts_bandwidth)
            /\ pc' = "pool"
            /\ exception' = exception
       ELSE IF ~bandwidth_arg[1].is_ndarray
       THEN /\ resolved_bandwidths' = resolved_bandwidths
            /\ pc' = "raised"
            /\ exception' = "ValueError"
       ELSE /\ resolved_bandwidths' = bandwidth_arg[1].values
            /\ pc' = "pool"
            /\ exception' = exception
    /\ UNCHANGED <<call, fsArgs, fsLocals, evaluated, returned, variance_data>>
    /\ UNCHANGED <<nvArgs, xi, pool, tasks, completed, kregmodResults, lvar>>
    /\ UNCHANGED <<flmVars, errVars, vdVars>>

\* the squared residual norms, per bandwidth and column, the kernel
\* regressions of a call can yield: a column whose observations are all
\* equal is predicted exactly, and a bandwidth that occurs twice yields the
\* same prediction twice
ResidualTables ==
    {l \in [DOMAIN resolved_bandwidths -> [1..depvars.columns -> LocalValues]] :
        /\ \A si \in DOMAIN l : \A idx \in 1..depvars.columns :
              depvars.gvar[idx] = 0 => l[si][idx] = 0
        /\ \A si, sj \in DOMAIN l :
              resolved_bandwidths[si] = resolved_bandwidths[sj] => l[si] = l[sj]}

\* lines 190-203 when every evaluation returns: one kernel regression per
\* bandwidth on the pool, the pool closed and joined, then the squared
\* residual norms per bandwidth and column (the evaluations are followed one
\* by one in SpecPool, not here)
PoolMap ==
    /\ call = "variance"
    /\ pc = "pool"
    /\ \E l \in ResidualTables :
          /\ kregmodResults' = [si \in DOMAIN l |->
                [bandwidth |-> resolved_bandwidths[si], residual |-> l[si]]]
          /\ lvar' = l
    /\ pool' = "joined"
    /\ pc' = "assemble"
    /\ UNCHANGED <<call, exception, fsArgs, fsLocals, evaluated, returned, variance_data>>
    /\ UNCHANGED <<nvArgs, xi, resolved_bandwidths, tasks, completed>>
    /\ UNCHANGED <<flmVars, errVars, vdVars>>

\* kregmod.predict(xi, 1.e-16) reduced to squared residual norms per column:
\* at this bandwidth the kernel weight of an observation is 1 on a row
\* identical to its own, between 0 and 1 on a row numerically coinciding with
\* it and 0 on every other row, so a prediction differs from the observation
\* exactly where coinciding rows carry different values
KRegLimit ==
    [idx \in 1..depvars.columns |->
        IF indepvars.coincident # "none" /\ depvars.differ[idx] THEN 1 ELSE 0]

\* lines 205-226: the dictionaries, the regression at bandwidth 1e-16 and
\* the VarianceData returned
AssembleAndReturn ==
    /\ call = "variance"
    /\ pc = "assemble"
    /\ returned' = Some(AssembleVarianceData(resolved_bandwidths, depvar_names,
                                             lvar, depvars.gvar, KRegLimit))
    /\ pc' = "done"
    /\ UNCHANGED <<call, exception, fsArgs, fsLocals, evaluated, variance_data>>
    /\ UNCHANGED <<nvVars, flmVars, errVars, vdVars>>

NextNV ==
    \/ Validate
    \/ Scale
    \/ ResolveBandwidths
    \/ PoolMap
    \/ AssembleAndReturn

SpecNV == InitVariance /\ [][NextNV]_vars

\* ------------------------------------------------------------------------
\* compute_normalized_variance: the evaluations on the worker pool
\* ------------------------------------------------------------------------

\* a call on one dependent variable, with the bandwidth arguments of any call
InitPool ==
    /\ call = "variance"
    /\ pc = "validate"
    /\ exception = None
    /\ returned = Absent
    /\ NoSelectionCall
    /\ NoObjects
    /\ NoMaximaCall
    /\ NoErrorCall
    /\ indepvars = [ndim |-> 2, observations |-> 2, coincident |-> "none"]
    /\ depvar_names = <<"A">>
    /\ depvars = [ndim |-> 2, observations |-> 2, columns |-> 1,
                  gvar |-> <<4>>, differ |-> <<FALSE>>]
    /\ VarianceCallBandwidths
    /\ scale_unit_box = TRUE
    /\ NoVarianceLocals

\* lines 190-196: lvar is zeros, fcnArgs holds one pair per bandwidth in the
\* order of bandwidth_values, the pool starts its workers
CreatePool ==
    /\ call = "variance"
    /\ pc = "pool"
    /\ lvar' = [si \in DOMAIN resolved_bandwidths |-> [idx \in 1..depvars.columns |-> 0]]
    /\ tasks' = [si \in DOMAIN resolved_bandwidths |->
                    [state |-> "pending", bandwidth |-> resolved_bandwidths[si],
                     result |-> <<>>]]
    /\ pool' = "open"
    /\ pc' = "starmap"
    /\ UNCHANGED <<call, exception, fsArgs, fsLocals, evaluated, returned, variance_data>>
    /\ UNCHANGED <<nvArgs, xi, resolved_bandwidths, completed, kregmodResults>>
    /\ UNCHANGED <<flmVars, errVars, vdVars>>

\* a worker takes an evaluation that waits
WorkerStart(si) ==
    /\ call = "variance"
    /\ pc = "starmap"
    /\ tasks[si].state = "pending"
    /\ tasks' = [tasks EXCEPT ![si].state = "running"]
    /\ UNCHANGED <<call, pc, exception, fsArgs, fsLocals, evaluated, returned, variance_data>>
    /\ UNCHANGED <<nvArgs, xi, resolved_bandwidths, pool, completed, kregmodResults, lvar>>
    /\ UNCHANGED <<flmVars, errVars, vdVars>>

\* a worker returns from kregmod.predict(xi, bandwidth) with the bandwidth of
\* its evaluation; the same bandwidth yields the same prediction
WorkerComplete(si) ==
    /\ call = "variance"
    /\ pc = "starmap"
    /\ tasks[si].state = "running"
    /\ \E r \in [1..depvars.columns -> LocalValues] :
          /\ \A idx \in 1..depvars.columns : depvars.gvar[idx] = 0 => r[idx] = 0
          /\ \A sj \in DOMAIN tasks :
                (tasks[sj].state = "done" /\ tasks[sj].bandwidth = tasks[si].bandwidth)
                    => r = tasks[sj].result
          /\ tasks' = [tasks EXCEPT ![si].state = "done", ![si].result = r]
    /\ completed' = Append(completed, si)
    /\ UNCHANGED <<call, pc, exception, fsArgs, fsLocals, evaluated, returned, variance_data>>
    /\ UNCHANGED <<nvArgs, xi, resolved_bandwidths, pool, kregmodResults, lvar>>
    /\ UNCHANGED <<flmVars, errVars, vdVars>>

\* kregmod.predict raises in a worker
WorkerRaise(si) ==
    /\ call = "variance"
    /\ pc = "starmap"
    /\ tasks[si].state = "running"
    /\ tasks' = [tasks EXCEPT ![si].state = "failed"]
    /\ completed' = Append(completed, si)
    /\ UNCHANGED <<call, pc, exception, fsArgs, fsLocals, evaluated, returned, variance_data>>
    /\ UNCHANGED <<nvArgs, xi, resolved_bandwidths, pool, kregmodResults, lvar>>
    /\ UNCHANGED <<flmVars, errVars, vdVars>>

\* pool.starmap hands back the result of evaluation si at index si
GatherCompletionOrder(t, order) == [k \in DOMAIN order |-> t[order[k]].result]

Gather(t, order) == [si \in DOMAIN t |-> t[si].result]

\* line 197: pool.starmap returns once every evaluation has returned
StarmapReturn ==
    /\ call = "variance"
    /\ pc = "starmap"
    /\ \A si \in DOMAIN tasks : tasks[si].state = "done"
    /\ kregmodResults' = [si \in DOMAIN tasks |->
          [bandwidth |-> tasks[si].bandwidth, residual |-> Gather(tasks, completed)[si]]]
    /\ pc' = "close"
    /\ UNCHANGED <<call, exception, fsArgs, fsLocals, evaluated, returned, variance_data>>
    /\ UNCHANGED <<nvArgs, xi, resolved_bandwidths, pool, tasks, completed, lvar>>
    /\ UNCHANGED <<flmVars, errVars, vdVars>>

\* line 197: pool.starmap raises the exception of an evaluation that raised;
\* lines 199-200 are skipped
StarmapRaise ==
    /\ call = "variance"
    /\ pc = "starmap"
    /\ \E si \in DOMAIN tasks : tasks[si].state = "failed"
    /\ pc' = "raised"
    /\ exception' = "WorkerError"
    /\ UNCHANGED <<call, fsArgs, fsLocals, evaluated, returned, variance_data>>
    /\ UNCHANGED <<nvVars, flmVars, errVars, vdVars>>

\* lines 199-200: pool.close() and pool.join()
CloseAndJoin ==
    /\ call = "variance"
    /\ pc = "close"
    /\ pool' = "joined"
    /\ pc' = "fill"
    /\ UNCHANGED <<call, exception, fsArgs, fsLocals, evaluated, returned, variance_data>>
    /\ UNCHANGED <<nvArgs, xi, resolved_bandwidths, tasks, completed, kregmodResults, lvar>>
    /\ UNCHANGED <<flmVars, errVars, vdVars>>

\* lines 202-203: row si of lvar from kregmodResults[si]
FillLvar ==
    /\ call = "variance"
    /\ pc = "fill"
    /\ lvar' = [si \in DOMAIN resolved_bandwidths |-> kregmodResults[si].residual]
    /\ pc' = "assemble"
    /\ UNCHANGED <<call, exception, fsArgs, fsLocals, evaluated, returned, variance_data>>
    /\ UNCHANGED <<nvArgs, xi, resolved_bandwidths, pool, tasks, completed, kregmodResults>>
    /\ UNCHANGED <<flmVars, errVars, vdVars>>

NextPool ==
    \/ Validate
    \/ Scale
    \/ ResolveBandwidths
    \/ CreatePool
    \/ \E si \in DOMAIN tasks : WorkerStart(si)
    \/ \E si \in DOMAIN tasks : WorkerComplete(si)
    \/ \E si \in DOMAIN tasks : WorkerRaise(si)
    \/ StarmapReturn
    \/ StarmapRaise
    \/ CloseAndJoin
    \/ FillLvar
    \/ AssembleAndReturn

SpecPool == InitPool /\ [][NextPool]_vars

\* ------------------------------------------------------------------------
\* a call of find_local_maxima
\* ------------------------------------------------------------------------

\* the arrays of a call: as many independent values as dependent values,
\* the independent values increasing powers of ten
InitMaxima ==
    /\ call = "maxima"
    /\ pc = "maxima"
    /\ exception = None
    /\ returned = Absent
    /\ NoSelectionCall
    /\ NoVarianceCall
    /\ NoObjects
    /\ dependent_values \in UNION {[1..n -> DependentValues] : n \in 0..MaxPts}
    /\ independent_values = [i \in DOMAIN dependent_values |-> Pow10(i - 1)]
    /\ logscaling \in BOOLEAN
    /\ threshold = DefaultThreshold
    /\ zero_indices = <<>>
    /\ NoErrorCall

\* lines 295-337
FindLocalMaxima ==
    /\ call = "maxima"
    /\ pc = "maxima"
    /\ LET npts  == Len(independent_values)
           found == ZeroIndices(dependent_values, npts, threshold)
       IN  /\ zero_indices' = found
           /\ IF \E k \in DOMAIN found : IndexingRaises(SplineIndices(found[k], npts), npts)
              THEN /\ pc' = "raised"
                   /\ exception' = "IndexError"
                   /\ returned' = returned
              ELSE /\ pc' = "done"
                   /\ exception' = exception
                   /\ returned' = Some(<<ZeroLocations(found, npts, logscaling),
                                         ZeroDvalues(found, npts)>>)
    /\ UNCHANGED <<call, fsArgs, fsLocals, evaluated, variance_data>>
    /\ UNCHANGED <<nvVars, errVars, vdVars>>
    /\ UNCHANGED <<dependent_values, independent_values, logscaling, threshold>>

NextMaxima == FindLocalMaxima

SpecMaxima == InitMaxima /\ [][NextMaxima]_vars

\* ------------------------------------------------------------------------
\* a call of mean_squared_error or of root_mean_squared_error
\* ------------------------------------------------------------------------

\* the entries of the arrays
ObservationValues == {R(0), R(1), R(3)}

Zeros(n) == [i \in 1..n |-> R(0)]

\* one-dimensional arrays and arrays of one column, of every content; a
\* list, a 0-dimensional array, arrays of two columns and a 3-dimensional
\* array
ErrorArguments ==
    {[is_ndarray |-> TRUE, shape |-> <<Len(v)>>, values |-> v] :
        v \in UNION {[1..n -> ObservationValues] : n \in 0..MaxObs}}
    \cup {[is_ndarray |-> TRUE, shape |-> <<Len(v), 1>>, values |-> v] :
        v \in UNION {[1..n -> ObservationValues] : n \in 0..MaxObs}}
    \cup {[is_ndarray |-> TRUE, shape |-> <<n, 2>>, values |-> Zeros(n)] : n \in 0..MaxObs}
    \cup {[is_ndarray |-> TRUE, shape |-> <<>>, values |-> <<>>],
          [is_ndarray |-> TRUE, shape |-> <<1, 1, 1>>, values |-> Zeros(1)],
          [is_ndarray |-> FALSE, shape |-> <<1>>, values |-> Zeros(1)]}

InitError ==
    /\ call \in {"mse", "rmse"}
    /\ pc = "error"
    /\ exception = None
    /\ returned = Absent
    /\ NoSelectionCall
    /\ NoVarianceCall
    /\ NoObjects
    /\ NoMaximaCall
    /\ observed \in ErrorArguments
    /\ predicted \in ErrorArguments

Finish(outcome) ==
    /\ IF outcome.raised # None
       THEN /\ pc' = "raised"
            /\ exception' = outcome.raised
            /\ returned' = returned
       ELSE /\ pc' = "done"
            /\ exception' = exception
            /\ returned' = Some(outcome.value)
    /\ UNCHANGED <<call, fsArgs, fsLocals, evaluated, variance_data>>
    /\ UNCHANGED <<nvVars, flmVars, errVars, vdVars>>

\* lines 1467-1496
MeanSquaredErrorCall ==
    /\ call = "mse"
    /\ pc = "error"
    /\ Finish(MeanSquaredError(observed, predicted))

\* lines 1539-1568
RootMeanSquaredErrorCall ==
    /\ call = "rmse"
    /\ pc = "error"
    /\ Finish(RootMeanSquaredError(observed, predicted))

NextError == MeanSquaredErrorCall \/ RootMeanSquaredErrorCall

SpecError == InitError /\ [][NextError]_vars


\* ------------------------------------------------------------------------
\* A VarianceData object on the heap
\* ------------------------------------------------------------------------

\* The objects are named by who holds them: "arg" is what was passed to the
\* constructor, "self" what the object stores, "got" what the latest read of
\* an accessor handed out.  A dict of arrays maps each key to an array
\* object; ndarray.copy() and list.copy() make a new object with the same
\* entries, dict.copy() a new dict that refers to the same value objects.

Holders == {"arg", "self", "got"}

Keys == {"A", "B"}

\* the arrays norm_local_var refers to, one per key (line 218), and an array
\* the surrounding code makes to put into a dict it holds
ValueArrays == {"array.A", "array.B", "array.new"}

BandwidthArray(holder) == holder \o ".bandwidth_values"

ArrayObjects == {BandwidthArray(h) : h \in Holders} \cup ValueArrays

\* the fields that are dicts of floats
ScalarFields == {"global_variance", "bandwidth_10pct_rise", "normalized_variance_limit"}

\* an object that does not exist yet
NoObject == <<>>

InitObject ==
    /\ call = "object"
    /\ pc = "new"
    /\ exception = None
    /\ returned = Absent
    /\ NoSelectionCall
    /\ NoVarianceCall
    /\ NoMaximaCall
    /\ NoErrorCall
    /\ arrays = [a \in ArrayObjects |->
                    IF a = BandwidthArray("arg") THEN <<1, 10>>
                    ELSE IF a = "array.A" THEN <<0, 1>>
                    ELSE IF a = "array.B" THEN <<1, 1>>
                    ELSE IF a = "array.new" THEN <<5, 5>>
                    ELSE NoObject]
    /\ array_dicts = [h \in Holders |->
                         IF h = "arg" THEN [k \in Keys |-> "array." \o k]
                         ELSE NoObject]
    /\ scalar_dicts = [f \in ScalarFields |-> [h \in Holders |->
                         IF h = "arg" THEN [k \in Keys |-> 1] ELSE NoObject]]
    /\ name_lists = [h \in Holders |-> IF h = "arg" THEN <<"A", "B">> ELSE NoObject]
    /\ writes = 0

\* lines 53-59: VarianceData.__init__
Construct ==
    /\ call = "object"
    /\ pc = "new"
    /\ pc' = "live"
    /\ arrays' = [arrays EXCEPT ![BandwidthArray("self")] = arrays[BandwidthArray("arg")]]
    /\ array_dicts' = [array_dicts EXCEPT !["self"] = array_dicts["arg"]]
    /\ scalar_dicts' = [f \in ScalarFields |->
                           [scalar_dicts[f] EXCEPT !["self"] = scalar_dicts[f]["arg"]]]
    /\ name_lists' = [name_lists EXCEPT !["self"] = name_lists["arg"]]
    /\ UNCHANGED <<call, exception, fsArgs, fsLocals, evaluated, returned, variance_data>>
    /\ UNCHANGED <<nvVars, flmVars, errVars, writes>>

\* lines 61-64: the bandwidth_values property
ReadBandwidthValues ==
    /\ call = "object"
    /\ pc = "live"
    /\ arrays' = [arrays EXCEPT ![BandwidthArray("got")] = arrays[BandwidthArray("self")]]
    /\ UNCHANGED <<call, pc, exception, fsArgs, fsLocals, evaluated, returned, variance_data>>
    /\ UNCHANGED <<nvVars, flmVars, errVars, array_dicts, scalar_dicts, name_lists, writes>>

\* lines 66-69: the normalized_variance property
ReadNormalizedVariance ==
    /\ call = "object"
    /\ pc = "live"
    /\ array_dicts' = [array_dicts EXCEPT !["got"] = array_dicts["self"]]
    /\ UNCHANGED <<call, pc, exception, fsArgs, fsLocals, evaluated, returned, variance_data>>
    /\ UNCHANGED <<nvVars, flmVars, errVars, arrays, scalar_dicts, name_lists, writes>>

\* lines 71-79 and 86-90: the global_variance, bandwidth_10pct_rise and
\* normalized_variance_limit properties
ReadScalarDict(field) ==
    /\ call = "object"
    /\ pc = "live"
    /\ scalar_dicts' = [scalar_dicts EXCEPT ![field]["got"] = scalar_dicts[field]["self"]]
    /\ UNCHANGED <<call, pc, exception, fsArgs, fsLocals, evaluated, returned, variance_data>>
    /\ UNCHANGED <<nvVars, flmVars, errVars, arrays, array_dicts, name_lists, writes>>

\* lines 81-84: the variable_names property
ReadVariableNames ==
    /\ call = "object"
    /\ pc = "live"
    /\ name_lists' = [name_lists EXCEPT !["got"] = name_lists["self"]]
    /\ UNCHANGED <<call, pc, exception, fsArgs, fsLocals, evaluated, returned, variance_data>>
    /\ UNCHANGED <<nvVars, flmVars, errVars, arrays, array_dicts, scalar_dicts, writes>>

\* the holders the surrounding code has a reference to
Outside == {"arg", "got"}

\* the arrays the surrounding code can reach: the bandwidth arrays it holds
\* and the values of the dicts it holds
ReachableArrays ==
    {a \in {BandwidthArray(h) : h \in Outside} : arrays[a] # NoObject}
    \cup UNION {Range(array_dicts[h]) : h \in Outside}

\* a[i] = ... on an array the surrounding code can reach
WriteArrayEntry ==
    /\ call = "object"
    /\ pc = "live"
    /\ writes < MaxWrites
    /\ writes' = writes + 1
    /\ \E a \in ReachableArrays : \E i \in DOMAIN arrays[a] :
          arrays' = [arrays EXCEPT ![a][i] = @ + 1]
    /\ UNCHANGED <<call, pc, exception, fsArgs, fsLocals, evaluated, returned, variance_data>>
    /\ UNCHANGED <<nvVars, flmVars, errVars, array_dicts, scalar_dicts, name_lists>>

\* d[key] = array on a dict of arrays the surrounding code holds
ReplaceArrayEntry ==
    /\ call = "object"
    /\ pc = "live"
    /\ writes < MaxWrites
    /\ writes' = writes + 1
    /\ \E h \in Outside : \E k \in DOMAIN array_dicts[h] :
          array_dicts' = [array_dicts EXCEPT ![h][k] = "array.new"]
    /\ UNCHANGED <<call, pc, exception, fsArgs, fsLocals, evaluated, returned, variance_data>>
    /\ UNCHANGED <<nvVars, flmVars, errVars, arrays, scalar_dicts, name_lists>>

\* d[key] = value on a dict of floats the surrounding code holds
ReplaceScalarEntry ==
    /\ call = "object"
    /\ pc = "live"
    /\ writes < MaxWrites
    /\ writes' = writes + 1
    /\ \E f \in ScalarFields : \E h \in Outside : \E k \in DOMAIN scalar_dicts[f][h] :
          scalar_dicts' = [scalar_dicts EXCEPT ![f][h][k] = @ + 1]
    /\ UNCHANGED <<call, pc, exception, fsArgs, fsLocals, evaluated, returned, variance_data>>
    /\ UNCHANGED <<nvVars, flmVars, errVars, arrays, array_dicts, name_lists>>

\* l[i] = name on a list of names the surrounding code holds
ReplaceName ==
    /\ call = "object"
    /\ pc = "live"
    /\ writes < MaxWrites
    /\ writes' = writes + 1
    /\ \E h \in Outside : \E i \in DOMAIN name_lists[h] :
          name_lists' = [name_lists EXCEPT ![h][i] = "Z"]
    /\ UNCHANGED <<call, pc, exception, fsArgs, fsLocals, evaluated, returned, variance_data>>
    /\ UNCHANGED <<nvVars, flmVars, errVars, arrays, array_dicts, scalar_dicts>>

NextVD ==
    \/ Construct
    \/ ReadBandwidthValues
    \/ ReadNormalizedVariance
    \/ \E field \in ScalarFields : ReadScalarDict(field)
    \/ ReadVariableNames
    \/ WriteArrayEntry
    \/ ReplaceArrayEntry
    \/ ReplaceScalarEntry
    \/ ReplaceName

SpecVD == InitObject /\ [][NextVD]_vars

\* what the accessors of the object return when read now
Contents ==
    [bandwidth_values    |-> arrays[BandwidthArray("self")],
     normalized_variance |-> [k \in DOMAIN array_dicts["self"] |->
                                 arrays[array_dicts["self"][k]]],
     scalars             |-> [f \in ScalarFields |-> scalar_dicts[f]["self"]],
     variable_names      |-> name_lists["self"]]

\* ------------------------------------------------------------------------
\* Properties of manifold_informed_feature_selection and of the cost function
\* ------------------------------------------------------------------------

IsPrefix(s, t) == Len(s) <= Len(t) /\ \A i \in DOMAIN s : s[i] = t[i]

\* the contents of selected_variables (empty while the name is unbound)
SelectedList == IF selected_variables = None THEN <<>> ELSE lists[selected_variables]

\* a growth iteration has evaluated all its candidates and is about to decide
AtDecision ==
    /\ call = "select"
    /\ pc = "for"
    /\ Len(current_cost_function) = Len(remaining_variables_list)

\* two candidates of the iteration share the lowest cost
TiedAtDecision ==
    /\ AtDecision
    /\ Len(NpWhereEq(current_cost_function, NpMin(current_cost_function))) > 1

\* C1: in every growth iteration a candidate of lowest cost is appended to
\* selected_variables and removed from the remaining pool if and only if that
\* lowest cost is <= the previous best cost; if it is greater the search
\* leaves the loop to return selected_variables as the iteration found it.
C1_CommitIffNotWorse ==
    [][AtDecision =>
        LET min_area == NpMin(current_cost_function)
        IN  IF RLe(min_area, previous_area)
            THEN \E k \in DOMAIN remaining_variables_list :
                    /\ REq(current_cost_function[k], min_area)
                    /\ SelectedList' = Append(SelectedList, remaining_variables_list[k])
                    /\ Range(remaining_variables_list') =
                          Range(remaining_variables_list) \ {remaining_variables_list[k]}
            ELSE /\ pc' = "return"
                 /\ SelectedList' = SelectedList
                 /\ remaining_variables_list' = remaining_variables_list]_vars

\* C2: when every cost evaluation returns, the call returns: it never ends in
\* an exception, the growth loop runs at most n_variables iterations, and it
\* is left only with the remaining pool empty or after an iteration in which
\* no candidate's cost was <= the running best cost.
C2_ReturnsWithinNVariablesIterations ==
    call = "select" =>
        /\ loop_counter <= n_variables
        /\ pc = "raised" => exception \in {"NameError", "IndexError", "ValueError"}
        /\ pc \in {"return", "done"} =>
              \/ remaining_variables_list = <<>>
              \/ /\ Len(current_cost_function) = Len(remaining_variables_list)
                 /\ \A k \in DOMAIN current_cost_function :
                       ~RLe(current_cost_function[k], previous_area)

\* C3: selected_variables only grows: a step leaves it as it is or appends
\* one index at its end, a growth iteration that leaves it as it is ends the
\* loop, and the returned list is the list so grown.
C3_SelectedOnlyGrows ==
    [][call = "select" =>
        /\ IsPrefix(SelectedList, SelectedList')
        /\ selected_variables # None =>
              \/ SelectedList' = SelectedList
              \/ \E v \in 0..(n_variables - 1) : SelectedList' = Append(SelectedList, v)
        /\ (AtDecision /\ SelectedList' = SelectedList) => pc' \in {"return", "raised"}
        /\ returned' # Absent => returned' = Some(SelectedList')]_vars

\* the search returned a list two indices longer than its bootstrap
C3_Witness ==
    /\ call = "select"
    /\ pc = "done"
    /\ Len(returned[1]) >= Len(lists[bootstrap_variables]) + 2

\* C4: with bootstrap_variables = None the growth phase starts after every
\* variable was evaluated alone, with selected_variables holding only the
\* index of a variable of minimal bootstrap cost, previous_area that minimal
\* cost and the remaining pool all other indices in increasing order.
C4_AutomaticBootstrapSeed ==
    (call = "select" /\ bootstrap_variables = "local" /\ pc = "while" /\ loop_counter = 0) =>
        /\ Len(bootstrap_cost_function) = n_variables
        /\ \E i \in 0..(n_variables - 1) :
              /\ SelectedList = <<i>>
              /\ \A j \in DOMAIN bootstrap_cost_function :
                    RLe(bootstrap_cost_function[i + 1], bootstrap_cost_function[j])
              /\ previous_area = bootstrap_cost_function[i + 1]
              /\ remaining_variables_list = SortedSeq((0..(n_variables - 1)) \ {i})

\* the growth phase starts from a seed that is not the first variable and
\* whose cost differs from another variable's
C4_Witness ==
    /\ call = "select"
    /\ bootstrap_variables = "local"
    /\ pc = "while"
    /\ loop_counter = 0
    /\ SelectedList # <<0>>
    /\ \E j \in DOMAIN bootstrap_cost_function : bootstrap_cost_function[j] # previous_area

\* C5: the selection is read-only on its inputs: no step changes the
\* bootstrap_variables list of the caller, bandwidth_values or the shape of
\* X, and the call hands back nothing but the returned index list.
C5_InputsReadOnly ==
    [][call = "select" =>
        /\ lists'.caller = lists.caller
        /\ bandwidth_values' = bandwidth_values
        /\ n_variables' = n_variables
        /\ returned' # Absent => returned' = Some(SelectedList')]_vars

\* the search returned after appending to a bootstrap list of the caller
C5_Witness ==
    /\ call = "select"
    /\ pc = "done"
    /\ bootstrap_variables = "caller"
    /\ Len(returned[1]) > Len(lists.caller)

\* the area the closed formula of the indirect branch yields for one
\* variable, with sigma_peak read as the rightmost peak location of that
\* variable (np.interp at a bandwidth of the grid is the value stored there)
IndirectAreaWithOwnPeak(vd, variable, weighted) ==
    LET nvd        == NormalizedVarianceDerivative(vd)
        bw         == vd.bandwidth_values
        sigma_peak == PeakLocation(nvd.derivative[variable], nvd.sigma)
        sigma_min  == nvd.sigma[CHOOSE i \in DOMAIN nvd.sigma :
                                   \A j \in DOMAIN nvd.sigma : nvd.sigma[i] <= nvd.sigma[j]]
        At(b)      == vd.normalized_variance[variable][CHOOSE i \in DOMAIN bw : bw[i] = b]
        TERM_1     == RMul(RDiv(R(1), nvd.max_derivatives[variable]),
                           RSub(At(sigma_peak), At(sigma_min)))
        TERM_2     == RMul(RDiv(vd.normalized_variance_limit[variable],
                                nvd.max_derivatives[variable]),
                           RSub(Log10(sigma_peak), Log10(sigma_min)))
    IN  RMul(Weight(sigma_peak, weighted), RAdd(TERM_1, TERM_2))

AllHavePeaks(vd) ==
    \A k \in DOMAIN vd.variable_names :
        HasPeak(ScaledDerivative(vd, vd.variable_names[k]))

\* C6: called with direct_integration = False on variance data whose
\* derivative curves all have a peak, the cost function returns a cost: the
\* mean of the areas the closed formula yields with each variable's own
\* rightmost peak as sigma_peak (divided by that sigma_peak when weight_area).
C6_IndirectBranchReturnsCost ==
    (/\ call = "cost"
     /\ direct_integration = Some(FALSE)
     /\ pc \in {"done", "raised"}
     /\ AllHavePeaks(variance_data)) =>
        /\ pc = "done"
        /\ returned = Some(MeanOfAreas(Array([k \in DOMAIN variance_data.variable_names |->
              IndirectAreaWithOwnPeak(variance_data, variance_data.variable_names[k],
                                      weight_area)])))

\* C7, as claimed: wherever direct_integration is left out, of a call of the
\* cost function or of a call of the selection, the areas are computed by
\* direct trapezoidal integration.
C7_EveryDefaultIsDirect ==
    (direct_integration = Absent /\ evaluated.mode # "none") =>
        evaluated.mode = "direct"

\* C7, amended: the cost function called without direct_integration
\* integrates directly; the selection called without it passes
\* direct_integration = False to every evaluation, which takes the indirect
\* branch; a direct_integration that is given is used as given.
C7_DefaultsOfTheTwoSignatures ==
    evaluated.mode # "none" =>
        evaluated.mode =
            IF direct_integration # Absent
            THEN (IF direct_integration[1] THEN "direct" ELSE "indirect")
            ELSE IF call = "cost" THEN "direct" ELSE "indirect"

\* an evaluation of the selection ran with direct_integration left out
C7_Witness ==
    /\ call = "select"
    /\ direct_integration = Absent
    /\ evaluated.mode = "indirect"

\* C8: a VarianceData is immutable once constructed: no read of an accessor,
\* no write into a value an accessor returned (an entry of a returned array,
\* of an array of the returned normalized_variance, of a returned dict or
\* list) and no later write to the objects passed to the constructor changes
\* what the accessors return.
C8_ReadsNeverChange ==
    [][(call = "object" /\ pc = "live") => Contents' = Contents]_vars

\* compute_normalized_variance has returned
ReturnedVariance == call = "variance" /\ pc = "done"

\* C9: in the VarianceData compute_normalized_variance returns, the keys of
\* normalized_variance, global_variance, bandwidth_10pct_rise and
\* normalized_variance_limit are exactly the entries of variable_names, also
\* when a name is repeated, and every normalized_variance[name] has
\* len(bandwidth_values) entries.
C9_KeySetsAndLengths ==
    ReturnedVariance =>
        LET vd == returned[1]
        IN  /\ vd.variable_names = depvar_names
            /\ DOMAIN vd.normalized_variance = Range(vd.variable_names)
            /\ DOMAIN vd.global_variance = Range(vd.variable_names)
            /\ DOMAIN vd.bandwidth_10pct_rise = Range(vd.variable_names)
            /\ DOMAIN vd.normalized_variance_limit = Range(vd.variable_names)
            /\ \A name \in Range(vd.variable_names) :
                  Len(vd.normalized_variance[name]) = Len(vd.bandwidth_values)

\* the call returned for a repeated name, over two or more bandwidths, a
\* variable without a 10% rise
C9_Witness ==
    /\ ReturnedVariance
    /\ depvar_names = <<"A", "A">>
    /\ Len(returned[1].bandwidth_values) >= 2
    /\ returned[1].bandwidth_10pct_rise["A"] = Absent

\* the least member of a non-empty set of integers
Least(S) == CHOOSE x \in S : \A y \in S : x <= y

\* C10, as claimed: bandwidth_10pct_rise[name] is None if and only if
\* normalized_variance[name][i] / global_variance[name] < 0.1 at every
\* bandwidth; otherwise it is the smallest bandwidth at which that ratio
\* is >= 0.1.
C10_NoneIffRatioOfNormalizedBelow ==
    ReturnedVariance =>
        LET vd == returned[1]
        IN  \A name \in Range(vd.variable_names) :
                LET ratio(i) == RDiv(vd.normalized_variance[name][i],
                                     vd.global_variance[name])
                    reached  == {i \in DOMAIN vd.bandwidth_values :
                                    RGe(ratio(i), Threshold10pct)}
                IN  /\ vd.bandwidth_10pct_rise[name] = Absent <=>
                          \A i \in DOMAIN vd.bandwidth_values :
                              RLt(ratio(i), Threshold10pct)
                    /\ vd.bandwidth_10pct_rise[name] # Absent =>
                          /\ reached # {}
                          /\ vd.bandwidth_10pct_rise[name] =
                                Some(Least({vd.bandwidth_values[i] : i \in reached}))

StrictlyIncreasing(s) == \A i, j \in DOMAIN s : i < j => s[i] < s[j]

\* C10, amended: bandwidth_10pct_rise[name] is None if and only if no entry
\* of normalized_variance[name] (the local variance over the global
\* variance) is >= 0.1, which a NaN entry is not; otherwise it is
\* bandwidth_values[i] for the first index i whose entry is >= 0.1, the
\* smallest such bandwidth when bandwidth_values is strictly increasing.
C10_NoneIffNormalizedNeverReaches ==
    ReturnedVariance =>
        LET vd == returned[1]
        IN  \A name \in Range(vd.variable_names) :
                LET reached == {i \in DOMAIN vd.bandwidth_values :
                                   RGe(vd.normalized_variance[name][i], Threshold10pct)}
                IN  /\ vd.bandwidth_10pct_rise[name] = Absent <=> reached = {}
                    /\ reached # {} =>
                          /\ vd.bandwidth_10pct_rise[name] =
                                Some(vd.bandwidth_values[Least(reached)])
                          /\ StrictlyIncreasing(vd.bandwidth_values) =>
                                vd.bandwidth_10pct_rise[name] =
                                    Some(Least({vd.bandwidth_values[i] : i \in reached}))

\* the call returned, over increasing bandwidths, a variable that reaches
\* 0.1 at its second bandwidth only and a variable that never does
C10_Witness ==
    /\ ReturnedVariance
    /\ StrictlyIncreasing(returned[1].bandwidth_values)
    /\ Len(returned[1].bandwidth_values) >= 2
    /\ \E name \in DOMAIN returned[1].bandwidth_10pct_rise :
          /\ returned[1].bandwidth_10pct_rise[name] = Some(returned[1].bandwidth_values[2])
          /\ returned[1].normalized_variance[name][2] = Threshold10pct
    /\ \E name \in DOMAIN returned[1].bandwidth_10pct_rise :
          returned[1].bandwidth_10pct_rise[name] = Absent

\* C11: whatever the order in which the workers start and complete, every
\* evaluation has returned when pool.starmap returns, kregmodResults[i] is
\* the prediction of the evaluation made with bandwidth_values[i], the pool
\* is joined before lvar is filled, row i of lvar comes from
\* kregmodResults[i] and entry i of every normalized_variance[name] from
\* row i of lvar.
C11_GatheredInBandwidthOrder ==
    [][call = "variance" =>
        /\ (pc = "starmap" /\ pc' = "close") =>
              /\ DOMAIN kregmodResults' = DOMAIN resolved_bandwidths
              /\ \A si \in DOMAIN resolved_bandwidths :
                    /\ tasks[si].state = "done"
                    /\ tasks[si].bandwidth = resolved_bandwidths[si]
                    /\ kregmodResults'[si] =
                          [bandwidth |-> resolved_bandwidths[si],
                           residual  |-> tasks[si].result]
        /\ (pc = "fill" /\ pc' = "assemble") =>
              /\ pool = "joined"
              /\ \A si \in DOMAIN resolved_bandwidths :
                    lvar'[si] = kregmodResults[si].residual
        /\ (pc = "assemble" /\ pc' = "done") =>
              \A idx \in DOMAIN depvar_names : \A si \in DOMAIN resolved_bandwidths :
                  returned'[1].normalized_variance[depvar_names[idx]][si] =
                      RDiv(R(kregmodResults[si].residual[LastIdx(depvar_names, depvar_names[idx])]),
                           returned'[1].global_variance[depvar_names[idx]])]_vars

\* the call returned after the evaluation of the second bandwidth completed
\* first, with a prediction other than that of the first bandwidth
C11_Witness ==
    /\ ReturnedVariance
    /\ Len(completed) >= 2
    /\ completed[1] = 2
    /\ lvar[1] # lvar[2]

\* the call has ended, by a return or by an exception
EndedVariance == call = "variance" /\ pc \in {"done", "raised"}

\* C12: on every exit from compute_normalized_variance, by a return or by
\* an exception, the pool the call created is closed and its workers are
\* joined.
C12_PoolJoinedOnEveryExit ==
    (EndedVariance /\ pool # "none") => pool = "joined"

\* the shapes or the type of bandwidth_values are not those the call accepts
InvalidVarianceInput ==
    \/ indepvars.ndim # 2
    \/ depvars.ndim # 2
    \/ indepvars.observations # depvars.observations
    \/ Len(depvar_names) # depvars.columns
    \/ (bandwidth_arg # Absent /\ ~bandwidth_arg[1].is_ndarray)

\* C13: a call whose indepvars or depvars is not 2-D, whose observation
\* counts differ, whose depvar_names does not have one name per column or
\* whose explicit bandwidth_values is not an array ends by a validation
\* error, and before that error nothing has been computed: no xi, no
\* bandwidths, no pool, no kernel regression.
C13_ValidationBeforeAnyComputation ==
    (call = "variance" /\ InvalidVarianceInput) =>
        /\ pc # "done"
        /\ pc = "raised" => exception \in {"AssertionError", "ValueError"}
        /\ xi = "unset"
        /\ resolved_bandwidths = <<>>
        /\ pool = "none"
        /\ kregmodResults = <<>>

\* the maximum of the derivative of some variable, before scaling, is zero
FlatDerivative(vd) ==
    /\ Len(vd.bandwidth_values) >= 3
    /\ \E key \in Range(vd.variable_names) : NpMax(RawDerivative(vd, key)) = R(0)

\* C14: normalized_variance_derivative raises when the maximum it scales a
\* derivative by is zero, and every curve it returns has finite entries only.
C14_FlatCurveRaises ==
    (call = "derivative" /\ pc \in {"done", "raised"}) =>
        /\ FlatDerivative(variance_data) => pc = "raised"
        /\ pc = "done" =>
              \A key \in DOMAIN returned[1].derivative :
                  \A j \in DOMAIN returned[1].derivative[key] :
                      IsFinite(returned[1].derivative[key][j])

\* C15: compute_normalized_variance raises when some dependent variable has
\* zero global variance; it never returns a VarianceData computed by
\* dividing by that zero.
C15_ZeroVarianceRaises ==
    (EndedVariance /\ ~InvalidVarianceInput
        /\ \E idx \in DOMAIN depvars.gvar : depvars.gvar[idx] = 0) =>
            pc = "raised"

\* C16: find_local_maxima returns two parallel sequences with one entry per
\* kept candidate; on a strictly increasing dependent sequence, and on a
\* sequence of which the scan keeps no candidate, both are empty.
C16_ParallelSequences ==
    call = "maxima" /\ pc # "maxima" =>
        /\ pc = "done"
        /\ Len(returned[1][1]) = Len(zero_indices)
        /\ Len(returned[1][2]) = Len(zero_indices)
        /\ \A k \in DOMAIN zero_indices :
              /\ returned[1][1][k].candidate = zero_indices[k]
              /\ returned[1][2][k].candidate = zero_indices[k]
        /\ (\/ \A i \in 1..(Len(dependent_values) - 1) :
                  RLt(dependent_values[i], dependent_values[i + 1])
            \/ zero_indices = <<>>)
              => returned[1] = << <<>>, <<>> >>

\* C17: the bandwidth_values of every VarianceData compute_normalized_variance
\* returns is a strictly increasing sequence of positive values, whether it
\* was generated from min_bandwidth, max_bandwidth and npts_bandwidth or given
\* by the caller.
C17_BandwidthsStrictlyIncreasing ==
    ReturnedVariance =>
        /\ StrictlyIncreasing(returned[1].bandwidth_values)
        /\ \A i \in DOMAIN returned[1].bandwidth_values :
              returned[1].bandwidth_values[i] > 0

EndedRootMeanSquaredError == call = "rmse" /\ pc # "error"

OneDimensional(a) == a.is_ndarray /\ Len(a.shape) = 1

MoreThanOneColumn(a) == a.is_ndarray /\ Len(a.shape) = 2 /\ a.shape[2] > 1

CountsDiffer(a, b) ==
    /\ a.is_ndarray /\ Len(a.shape) >= 1
    /\ b.is_ndarray /\ Len(b.shape) >= 1
    /\ a.shape[1] # b.shape[1]

\* C19: root_mean_squared_error raises ValueError when observed or predicted
\* is not a numpy array or has more than one column, or when their numbers
\* of observations differ; for one-dimensional arrays of equal length it
\* returns a value.
C19_ValueErrorOrValue ==
    EndedRootMeanSquaredError =>
        /\ (\/ ~observed.is_ndarray
            \/ ~predicted.is_ndarray
            \/ MoreThanOneColumn(observed)
            \/ MoreThanOneColumn(predicted)
            \/ CountsDiffer(observed, predicted))
              => pc = "raised" /\ exception = "ValueError"
        /\ (/\ OneDimensional(observed)
            /\ OneDimensional(predicted)
            /\ observed.shape = predicted.shape)
              => pc = "done" /\ returned # Absent

\* the mean of the squared differences of the entries of two sequences of
\* the same length
MeanSquaredDifference(a, b) ==
    RDiv(RSum([i \in DOMAIN a |-> RMul(RSub(a[i], b[i]), RSub(a[i], b[i]))]),
         R(Len(a)))

\* C20: for one-dimensional arrays of equal length root_mean_squared_error
\* returns the square root of what mean_squared_error returns, which is the
\* mean of the squared differences of the entries; the value is 0 when the
\* arrays are equal entry by entry, positive when they differ in an entry,
\* and the same when the two arguments are exchanged.
C20_RootOfMeanSquaredDifference ==
    (/\ EndedRootMeanSquaredError
     /\ OneDimensional(observed)
     /\ OneDimensional(predicted)
     /\ observed.shape = predicted.shape) =>
        /\ pc = "done"
        /\ MeanSquaredError(observed, predicted).raised = None
        /\ returned = Some(Root(MeanSquaredError(observed, predicted).value))
        /\ returned = Some(Root(MeanSquaredDifference(observed.values, predicted.values)))
        /\ observed.values = predicted.values => returned[1].radicand = R(0)
        /\ observed.values # predicted.values => RGt(returned[1].radicand, R(0))
        /\ RootMeanSquaredError(predicted, observed) = [raised |-> None, value |-> returned[1]]

\* C19, amended: root_mean_squared_error raises ValueError when observed or
\* predicted is not a numpy array or has more than one column, or when their
\* numbers of observations differ; for one-dimensional arrays of equal
\* length that are not empty it returns a value, and for two empty
\* one-dimensional arrays it raises ZeroDivisionError.
C19_ValueErrorOrValueUnlessEmpty ==
    EndedRootMeanSquaredError =>
        /\ (\/ ~observed.is_ndarray
            \/ ~predicted.is_ndarray
            \/ MoreThanOneColumn(observed)
            \/ MoreThanOneColumn(predicted)
            \/ CountsDiffer(observed, predicted))
              => pc = "raised" /\ exception = "ValueError"
        /\ (/\ OneDimensional(observed)
            /\ OneDimensional(predicted)
            /\ observed.shape = predicted.shape)
              => IF observed.shape[1] > 0
                 THEN pc = "done" /\ returned # Absent
                 ELSE pc = "raised" /\ exception = "ZeroDivisionError"

C19_Witness ==
    /\ EndedRootMeanSquaredError
    /\ OneDimensional(observed)
    /\ observed.shape = <<2>>
    /\ predicted.is_ndarray
    /\ predicted.shape = <<2, 2>>
    /\ pc = "raised"
    /\ exception = "ValueError"

\* C20, amended: for one-dimensional arrays of equal length that are not
\* empty root_mean_squared_error returns the square root of what
\* mean_squared_error returns, which is the mean of the squared differences
\* of the entries; the value is 0 when the arrays are equal entry by entry,
\* positive when they differ in an entry, and the same when the two
\* arguments are exchanged.
C20_RootOfMeanSquaredDifferenceUnlessEmpty ==
    (/\ EndedRootMeanSquaredError
     /\ OneDimensional(observed)
     /\ OneDimensional(predicted)
     /\ observed.shape = predicted.shape
     /\ observed.shape[1] > 0) =>
        /\ pc = "done"
        /\ MeanSquaredError(observed, predicted).raised = None
        /\ returned = Some(Root(MeanSquaredError(observed, predicted).value))
        /\ returned = Some(Root(MeanSquaredDifference(observed.values, predicted.values)))
        /\ observed.values = predicted.values => returned[1].radicand = R(0)
        /\ observed.values # predicted.values => RGt(returned[1].radicand, R(0))
        /\ RootMeanSquaredError(predicted, observed) = [raised |-> None, value |-> returned[1]]

C20_Witness ==
    /\ EndedRootMeanSquaredError
    /\ pc = "done"
    /\ OneDimensional(observed)
    /\ OneDimensional(predicted)
    /\ observed.values = <<R(0), R(3)>>
    /\ predicted.values = <<R(1), R(0)>>
    /\ returned = Some(Root(R(5)))

\* the automatic bootstrap has evaluated every variable and two of them
\* share the lowest cost
TiedAtBootstrap ==
    /\ call = "select"
    /\ pc = "bootstrap"
    /\ bootstrap_variables = None
    /\ Len(bootstrap_cost_function) = n_variables
    /\ Len(NpWhereEq(bootstrap_cost_function, NpMin(bootstrap_cost_function))) > 1

\* the candidates of lowest cost, first in candidate order (from 0)
FirstOfLowest(costs) == NpWhereEq(costs, NpMin(costs))[1]

\* C21: when two or more candidates share the lowest cost, in the automatic
\* bootstrap or in a growth iteration, the search takes the first of them in
\* candidate order and goes on: the bootstrap list becomes that variable,
\* and a growth iteration whose lowest cost is accepted appends it.
C21_TieTakesFirstCandidate ==
    [][/\ TiedAtBootstrap =>
             /\ pc' = "start"
             /\ lists'[bootstrap_variables'] = <<FirstOfLowest(bootstrap_cost_function)>>
       /\ TiedAtDecision =>
             /\ pc' # "raised"
             /\ RLe(NpMin(current_cost_function), previous_area) =>
                   SelectedList' = Append(SelectedList,
                       remaining_variables_list[FirstOfLowest(current_cost_function) + 1])]_vars

\* find_local_maxima has run its scan
EndedMaxima == call = "maxima" /\ pc # "maxima"

\* the value of dependent_values at an index counted from 0
DependentAt(i) == dependent_values[i + 1]

\* the indices (from 0) the sequence rises into and does not rise out of
RisingThenNotRising ==
    {i \in 1..(Len(dependent_values) - 2) :
        /\ RLt(DependentAt(i - 1), DependentAt(i))
        /\ RLe(DependentAt(i + 1), DependentAt(i))}

\* C22: find_local_maxima flags a candidate exactly at each index where the
\* sequence was increasing and the next step is not, and keeps a candidate
\* if and only if the dependent value at the candidate index exceeds
\* threshold.
C22_KeptIffValueAboveThreshold ==
    EndedMaxima =>
        LET flagged == Range(FlaggedIndices(dependent_values, Len(independent_values)))
        IN  /\ flagged = RisingThenNotRising
            /\ Range(zero_indices) = {i \in flagged : RGt(DependentAt(i), threshold)}

\* C23: for every kept candidate and every length of the arrays the spline
\* is fitted on 4 consecutive indices that lie within 0..npts-1 and include
\* the candidate.
C23_FourIndicesWithinTheArrays ==
    EndedMaxima =>
        \A k \in DOMAIN zero_indices :
            LET npts    == Len(independent_values)
                indices == SplineIndices(zero_indices[k], npts)
            IN  /\ Len(indices) = 4
                /\ \A j \in 1..3 : indices[j + 1] = indices[j] + 1
                /\ \A j \in 1..4 : indices[j] \in 0..(npts - 1)
                /\ \E j \in 1..4 : indices[j] = zero_indices[k]

\* the direct branch of the cost function has run
EndedDirectCost ==
    /\ call = "cost"
    /\ pc \in {"done", "raised"}
    /\ direct_integration = Some(TRUE)

\* the area of the scaled derivative of one variable under the trapezoidal
\* rule over log10 of the interior bandwidths up to sigma_peak, the largest
\* bandwidth at which the variable's own derivative has a detected peak,
\* divided by that sigma_peak when weighted
DirectAreaWithOwnPeak(vd, variable, weighted) ==
    LET nvd        == NormalizedVarianceDerivative(vd)
        D          == nvd.derivative[variable]
        sigma      == nvd.sigma
        peaks      == {sigma[p] : p \in Range(FindPeaks(D))}
        sigma_peak == CHOOSE b \in peaks : \A c \in peaks : c <= b
        panels     == SortedSeq({j \in 1..(Len(sigma) - 1) : sigma[j + 1] <= sigma_peak})
        area       == RSum([k \in DOMAIN panels |->
                          RMul(RSub(Log10(sigma[panels[k] + 1]), Log10(sigma[panels[k]])),
                               RDiv(RAdd(D[panels[k]], D[panels[k] + 1]), R(2)))])
    IN  RDiv(area, IF weighted THEN R(sigma_peak) ELSE R(1))

\* C24: with direct_integration = True the cost function takes for each
\* variable the rightmost detected peak of its derivative as sigma_peak,
\* integrates the derivative by the trapezoidal rule over log10 of the
\* interior bandwidths <= sigma_peak, divides the area by the variable's own
\* sigma_peak when weight_area, and returns the mean of the areas.
C24_DirectCostIsMeanOfOwnAreas ==
    (EndedDirectCost /\ AllHavePeaks(variance_data)) =>
        /\ pc = "done"
        /\ returned = Some(MeanOfAreas(Array([k \in DOMAIN variance_data.variable_names |->
              DirectAreaWithOwnPeak(variance_data, variance_data.variable_names[k],
                                    weight_area)])))

\* a weighted cost was returned for two variables whose rightmost peaks lie
\* at different bandwidths, one of them with two peaks
C24_Witness ==
    /\ EndedDirectCost
    /\ pc = "done"
    /\ weight_area
    /\ Len(variance_data.variable_names) = 2
    /\ LET nvd == NormalizedVarianceDerivative(variance_data)
           D1  == nvd.derivative[variance_data.variable_names[1]]
           D2  == nvd.derivative[variance_data.variable_names[2]]
       IN  /\ Len(FindPeaks(D1)) = 2
           /\ PeakLocation(D1, nvd.sigma) # PeakLocation(D2, nvd.sigma)

\* normalized_variance_derivative has ended
EndedDerivative == call = "derivative" /\ pc \in {"done", "raised"}

\* entry j (from 1) of the derivative of a variable: the difference of the
\* normalized variance between bandwidth indices j and j+2 over the
\* difference of log10 of these bandwidths, shifted by the limit and scaled
\* by max
CentralDifference(vd, key, j, max) ==
    RDiv(RAdd(RDiv(RSub(vd.normalized_variance[key][j + 2], vd.normalized_variance[key][j]),
                   RSub(Log10(vd.bandwidth_values[j + 2]), Log10(vd.bandwidth_values[j]))),
              vd.normalized_variance_limit[key]),
         max)

\* what C25 has returned for a VarianceData of m bandwidths
DerivativeOverInterior(vd, out) ==
    LET m == Len(vd.bandwidth_values)
    IN  /\ DOMAIN out.derivative = Range(vd.variable_names)
        /\ DOMAIN out.max_derivatives = Range(vd.variable_names)
        /\ Len(out.sigma) = m - 2
        /\ \A j \in 1..(m - 2) : out.sigma[j] = vd.bandwidth_values[j + 1]
        /\ \A key \in Range(vd.variable_names) :
              /\ Len(out.derivative[key]) = m - 2
              /\ \A j \in 1..(m - 2) :
                    out.derivative[key][j] =
                        CentralDifference(vd, key, j, out.max_derivatives[key])

\* C25: for a VarianceData of m bandwidths normalized_variance_derivative
\* returns for every name a derivative of m - 2 entries and the m - 2
\* interior bandwidths, entry j being the central difference between
\* bandwidth indices j and j+2; the keys of both returned maps are the
\* variable names and the VarianceData is left as it was.
C25_DerivativeOverInterior ==
    [][(/\ call = "derivative"
        /\ pc = "derivative"
        /\ Len(variance_data.bandwidth_values) >= 2) =>
          /\ pc' = "done"
          /\ DerivativeOverInterior(variance_data, returned'[1])
          /\ variance_data' = variance_data]_vars

\* C25, amended: for a VarianceData of m >= 3 bandwidths, or of no variable,
\* the above holds (with max(m - 2, 0) entries); with fewer than 3
\* bandwidths and at least one variable the call raises ValueError.
C25_DerivativeOverInteriorFromThree ==
    [][(call = "derivative" /\ pc = "derivative") =>
          /\ variance_data' = variance_data
          /\ IF Len(variance_data.bandwidth_values) >= 3 \/ variance_data.variable_names = <<>>
             THEN /\ pc' = "done"
                  /\ IF Len(variance_data.bandwidth_values) >= 3
                     THEN DerivativeOverInterior(variance_data, returned'[1])
                     ELSE /\ returned'[1].sigma = <<>>
                          /\ DOMAIN returned'[1].derivative = {}
                          /\ DOMAIN returned'[1].max_derivatives = {}
             ELSE pc' = "raised" /\ exception' = "ValueError"]_vars

C25_Witness ==
    /\ call = "derivative"
    /\ pc = "done"
    /\ Len(variance_data.variable_names) = 2
    /\ Len(returned[1].sigma) = NumBw - 2
    /\ \E key \in DOMAIN returned[1].derivative :
          /\ returned[1].derivative[key][1] = R(0)
          /\ returned[1].derivative[key][2] = R(1)

Min(a, b) == IF a <= b THEN a ELSE b

\* the names of evaluated that stand for projected source terms
SourceTermsOf(names) == {k \in DOMAIN names : \E i \in 0..MaxVars : names[k] = SZ(i)}

InGrowthOrAfter == call = "select" /\ pc \in {"while", "for", "return", "done"}

\* C27: at the start of every growth iteration and at return,
\* selected_variables and the remaining pool are disjoint, together they
\* hold exactly the indices 0..n_variables-1, selected_variables holds no
\* index twice and the remaining pool is in increasing order.
C27_SelectedAndRemainingPartition ==
    InGrowthOrAfter =>
        /\ Range(SelectedList) \cap Range(remaining_variables_list) = {}
        /\ Range(SelectedList) \cup Range(remaining_variables_list) = 0..(n_variables - 1)
        /\ \A i, j \in DOMAIN SelectedList : i # j => SelectedList[i] # SelectedList[j]
        /\ StrictlyIncreasing(remaining_variables_list)

\* the search returned a list that is not in increasing order and left a
\* variable in the pool
C27_Witness ==
    /\ call = "select"
    /\ pc = "done"
    /\ Len(remaining_variables_list) = 1
    /\ Len(SelectedList) = 2
    /\ SelectedList[1] > SelectedList[2]

\* C28: previous_area never increases: it starts at the cost of the
\* bootstrap set, is replaced only by a value <= itself, and after every
\* commit it is the cost that was evaluated for the variable set now in
\* selected_variables.
C28_BestCostNeverIncreases ==
    [][call = "select" =>
        /\ pc = "start" =>
              /\ previous_area' =
                    IF bootstrap_variables = "local"
                    THEN bootstrap_cost_function[lists.local[1] + 1]
                    ELSE bootstrap_cost_function[1]
              /\ IsFinite(previous_area')
        /\ pc # "start" =>
              \/ previous_area' = previous_area
              \/ AtDecision /\ RLe(previous_area', previous_area)
        /\ (AtDecision /\ SelectedList' # SelectedList) =>
              \E k \in DOMAIN remaining_variables_list :
                  /\ SelectedList' = Append(SelectedList, remaining_variables_list[k])
                  /\ previous_area' = current_cost_function[k]]_vars

\* after a commit the running best cost is strictly below the bootstrap cost
C28_Witness ==
    /\ call = "select"
    /\ pc = "while"
    /\ loop_counter >= 1
    /\ RLt(previous_area, NpMin(bootstrap_cost_function))

\* C29: when the selection returns, every variable is in the returned list,
\* or every variable that is not was evaluated in the last iteration as an
\* addition to the returned list and cost strictly more than the running
\* best cost.
C29_ReturnedSetIsLocallyOptimal ==
    (call = "select" /\ pc = "done") =>
        /\ returned = Some(SelectedList)
        /\ \/ Range(returned[1]) = 0..(n_variables - 1)
           \/ /\ Range(remaining_variables_list) = (0..(n_variables - 1)) \ Range(returned[1])
              /\ Len(current_cost_function) = Len(remaining_variables_list)
              /\ evaluated.variables =
                    Append(returned[1], remaining_variables_list[Len(remaining_variables_list)])
              /\ \A k \in DOMAIN current_cost_function :
                    RGt(current_cost_function[k], previous_area)

\* the search returned with a variable left out, which was evaluated in the
\* last iteration and cost more than the running best cost
C29_Witness ==
    /\ call = "select"
    /\ pc = "done"
    /\ remaining_variables_list # <<>>
    /\ Len(current_cost_function) = Len(remaining_variables_list)
    /\ RGt(current_cost_function[1], previous_area)
    /\ Range(SelectedList) # 0..(n_variables - 1)

\* the curves of the data whose derivative has a peak for every name
PeakedCurves(names) ==
    {c \in SelectionCurves :
        AllHavePeaks(VarianceDataOf(bandwidth_values, names, CurveOf(c)))}

\* the costs the cost function returns for those curves
CostsOfPeakedCurves(names) ==
    {e.out.value :
        e \in {x \in {Evaluation(<<>>, 0, names, c) : c \in PeakedCurves(names)} :
                  x.out.kind = "return"}}

NoPeakSomewhere(vd) == ~DerivativeRaises(vd) /\ ~AllHavePeaks(vd)

\* C30: the cost function returns a cost only if the derivative curve of
\* every variable has a detected peak, and raises when some variable has
\* none; inside the selection every cost that is kept is the cost of data
\* whose curves all have a peak, and an evaluation that raises ends the
\* search for good with nothing returned.
C30_NoPeakRaisesAndAbortsTheSearch ==
    [][/\ (call = "cost" /\ pc = "cost") =>
            /\ pc' = "done" =>
                  (~DerivativeRaises(variance_data) /\ AllHavePeaks(variance_data))
            /\ NoPeakSomewhere(variance_data) =>
                  (pc' = "raised" /\ returned' = Absent
                   /\ exception' \in {"IndexError", "NameError"})
       /\ (call = "select" /\ bootstrap_cost_function' # bootstrap_cost_function) =>
            bootstrap_cost_function'[Len(bootstrap_cost_function')]
                \in CostsOfPeakedCurves(evaluated'.depvar_names)
       /\ (call = "select" /\ Len(current_cost_function') > Len(current_cost_function)) =>
            current_cost_function'[Len(current_cost_function')]
                \in CostsOfPeakedCurves(evaluated'.depvar_names)
       /\ (call = "select" /\ pc' = "raised") =>
            (returned' = Absent /\ returned = Absent)
       /\ (call = "select" /\ pc = "raised") => pc' = "raised"
      ]_vars

\* the search was aborted by a candidate without a peak after it had
\* already kept the cost of another candidate of the same iteration
C30_Witness ==
    /\ call = "select"
    /\ pc = "raised"
    /\ exception = "IndexError"
    /\ evaluated.mode = "direct"
    /\ Len(SelectedList) >= 1
    /\ Len(current_cost_function) >= 1
    /\ returned = Absent

=============================================================================
